---- MODULE Spec2Model ----
(***************************************************************************)
(* State-machine model of the semantic-graph core of ReasonOS:             *)
(* SemanticGraphOrchestrator (orchestrator.py), GraphBuilder               *)
(* (graph_builder.py), CodeAnalyzer (analyzer.py) and ImpactAnalyzer       *)
(* (impact_analyzer.py).  Paths, names and node IDs are strings, and the   *)
(* string operations of the code (basename, stem, lower-casing, substring  *)
(* search, concatenation) are computed on them character by character.     *)
(***************************************************************************)
EXTENDS Integers, Sequences, FiniteSets, TLC

\* Python's None, as a string no path, name or ID of the model equals.
NONE == "<None>"

(***************************************************************************)
(* String helpers: str.lower, the `in` substring test, pathlib's name/stem *)
(***************************************************************************)
\* str.lower on one character
LowerChar(c) ==
    CASE c = "A" -> "a" [] c = "B" -> "b" [] c = "C" -> "c" [] c = "D" -> "d"
      [] c = "E" -> "e" [] c = "F" -> "f" [] c = "G" -> "g" [] c = "H" -> "h"
      [] c = "I" -> "i" [] c = "J" -> "j" [] c = "K" -> "k" [] c = "L" -> "l"
      [] c = "M" -> "m" [] c = "N" -> "n" [] c = "O" -> "o" [] c = "P" -> "p"
      [] c = "Q" -> "q" [] c = "R" -> "r" [] c = "S" -> "s" [] c = "T" -> "t"
      [] c = "U" -> "u" [] c = "V" -> "v" [] c = "W" -> "w" [] c = "X" -> "x"
      [] c = "Y" -> "y" [] c = "Z" -> "z" [] OTHER -> c

RECURSIVE Lower(_)
Lower(s) ==
    IF Len(s) = 0 THEN ""
    ELSE LowerChar(SubSeq(s, 1, 1)) \o Lower(SubSeq(s, 2, Len(s)))

\* pattern in s
Contains(pattern, s) ==
    \E i \in 1..(Len(s) - Len(pattern) + 1) :
        SubSeq(s, i, i + Len(pattern) - 1) = pattern

\* s.rfind(c) + 1, searching s[1..i]; 0 when c does not occur
RECURSIVE LastIndexOf(_, _, _)
LastIndexOf(c, s, i) ==
    IF i = 0 THEN 0
    ELSE IF SubSeq(s, i, i) = c THEN i
    ELSE LastIndexOf(c, s, i - 1)

\* Path(p).name
PathName(p) ==
    LET i == LastIndexOf("/", p, Len(p)) IN SubSeq(p, i + 1, Len(p))

\* Path(p).stem: the name without its last suffix
PathStem(p) ==
    LET n == PathName(p)
        i == LastIndexOf(".", n, Len(n))
    IN IF 1 < i /\ i < Len(n) THEN SubSeq(n, 1, i - 1) ELSE n

\* Path(p).suffix
PathSuffix(p) ==
    LET n == PathName(p)
        i == LastIndexOf(".", n, Len(n))
    IN IF 1 < i /\ i < Len(n) THEN SubSeq(n, i, Len(n)) ELSE ""

\* s.split("/")
RECURSIVE SplitPath(_)
SplitPath(s) ==
    LET i == LastIndexOf("/", s, Len(s))
    IN IF i = 0 THEN <<s>>
       ELSE Append(SplitPath(SubSeq(s, 1, i - 1)), SubSeq(s, i + 1, Len(s)))

(***************************************************************************)
(* Bounds of the model and the alphabets the repository is drawn from      *)
(***************************************************************************)
MaxFiles == 2      \* files in the repository
MaxDefs == 2       \* function definitions in the repository
MaxCalls == 2      \* call sites in the repository
MaxImports == 1    \* import statements in the repository
MaxExports == 1    \* export statements in the repository
MaxItems == 3      \* definitions, calls, imports and exports together

\* Absolute paths as FileDiscovery reports them.  Two share a basename (and a
\* stem); two are Python, one JavaScript; two contain "test".
Paths == {"/r/a/calc.py", "/r/test/calc.py", "/r/Checkout.test.js"}
\* a definition as the parser records it: a is top-level / under an export
\* statement, b is nested / not exported
DefItems == {[name |-> "a", is_exported |-> TRUE], [name |-> "b", is_exported |-> FALSE]}
\* a call as the parser records it: the callee text as written (a dotted
\* member expression is recorded whole) and the enclosing name found by
\* _find_containing_function: none, or b, which is a function of the file or,
\* in JavaScript, the variable of a declaration (const b = a())
CallItems ==
    {[callee |-> "a", caller |-> NONE], [callee |-> "a", caller |-> "b"],
     [callee |-> "obj.a", caller |-> NONE]}
ImportNameLists == {<<"a">>}
ExportNameLists == {<<"a">>}

IsPython(path) == PathSuffix(path) = ".py"

SeqsUpTo(S, n) == UNION {[1..k -> S] : k \in 0..n}

\* number of directories between the root and the file
Depth(path) == Cardinality({i \in 1..Len(path) : SubSeq(path, i, i) = "/"})

\* all lists of at most n distinct paths in an order os.walk can yield them:
\* the files of the root directory before the files of its subdirectories,
\* the subdirectories in any order
PathLists(n) ==
    {ps \in SeqsUpTo(Paths, n) :
        \A i, j \in 1..Len(ps) : i < j => ps[i] # ps[j] /\ Depth(ps[i]) <= Depth(ps[j])}

\* a placement puts one record into file number `file`; within a kind the
\* placements are listed file by file, in source order
Sorted(pl) == \A i \in 1..(Len(pl) - 1) : pl[i].file <= pl[i + 1].file
Placements(S, n, nfiles) ==
    {pl \in SeqsUpTo([file : 1..nfiles, item : S], n) : Sorted(pl)}

\* the records of one kind placed in file i, in source order
InFile(pl, i) == SelectSeq(pl, LAMBDA p : p.file = i)

\* parser.py FunctionDefinition / FunctionCall / ImportStatement / ExportStatement:
\* every record carries the path of the file it was parsed from; k is its
\* position among the records of its kind in the file
FunctionDefinition(path, item, k) ==
    [name |-> item.name, file_path |-> path, line_number |-> k,
     is_exported |-> item.is_exported]
FunctionCall(path, item, k) ==
    [function_name |-> item.callee, file_path |-> path, line_number |-> 30 + k,
     calling_function |-> item.caller]
ImportStatement(path, item, k) ==
    [imported_names |-> item, file_path |-> path, line_number |-> 10 + k]
ExportStatement(path, item, k) ==
    [exported_names |-> item, file_path |-> path, line_number |-> 20 + k]

\* parser.py ParsedFile
ParsedFile(path, defs, calls, imps, exps) ==
    [file_path |-> path,
     functions |-> [k \in 1..Len(defs) |-> FunctionDefinition(path, defs[k].item, k)],
     calls |-> [k \in 1..Len(calls) |-> FunctionCall(path, calls[k].item, k)],
     imports |-> [k \in 1..Len(imps) |-> ImportStatement(path, imps[k].item, k)],
     exports |-> [k \in 1..Len(exps) |-> ExportStatement(path, exps[k].item, k)],
     parse_errors |-> <<>>]

\* the parsed files of a repository with paths ps and the given placements
Repository(ps, d, c, im, ex) ==
    [i \in 1..Len(ps) |->
        ParsedFile(ps[i], InFile(d, i), InFile(c, i), InFile(im, i), InFile(ex, i))]

(***************************************************************************)
(* parser.py: FileDiscovery and CodeParser.parse_file on the files below   *)
(* the root.  A file of the tree is its absolute path, whether its bytes   *)
(* decode as UTF-8, whether it can be read when it is parsed, whether the  *)
(* extraction from its syntax tree raises, and what the extraction finds.  *)
(***************************************************************************)
RootPath == "/r"

IGNORED_DIRS ==
    {"node_modules", ".git", ".github", "build", "dist", ".next", "venv", ".venv", "env",
     "__pycache__", ".pytest_cache", ".mypy_cache", "coverage", ".idea", ".vscode",
     "vendor", "target", "out"}

FILE_EXTENSIONS == {".py", ".js", ".jsx", ".ts", ".tsx"}

TreeFile(path, utf8, reads, extraction_raises, found) ==
    [path |-> path, utf8 |-> utf8, reads |-> reads,
     extraction_raises |-> extraction_raises, found |-> found]

\* the names of the directories between the root and the file
DirsBelowRoot(path) ==
    LET parts == SplitPath(SubSeq(path, Len(RootPath) + 2, Len(path)))
    IN SubSeq(parts, 1, Len(parts) - 1)

\* a faulty _should_ignore_dir: the test of the leading dot is left out
should_ignore_dir_listed_only(dirname) == dirname \in IGNORED_DIRS

\* FileDiscovery._should_ignore_dir
should_ignore_dir(dirname) == dirname \in IGNORED_DIRS \/ SubSeq(dirname, 1, 1) = "."

\* FileDiscovery._is_code_file
is_code_file(filename) == PathSuffix(filename) \in FILE_EXTENSIONS

\* os.walk with the ignored directories removed from dirs: the file is
\* reached when no directory above it is ignored
is_walked(path) ==
    \A k \in 1..Len(DirsBelowRoot(path)) : ~should_ignore_dir(DirsBelowRoot(path)[k])

\* FileDiscovery._create_file_info returns a FileInfo: the suffix has a file
\* type and the lines can be counted reading the file as UTF-8
has_file_info(file) == PathSuffix(file.path) \in FILE_EXTENSIONS /\ file.utf8

\* FileDiscovery.discover_files: tree lists the files in the order os.walk
\* meets them
discover_files(tree_) ==
    SelectSeq(tree_, LAMBDA file : /\ is_walked(file.path)
                                   /\ is_code_file(PathName(file.path))
                                   /\ has_file_info(file))

\* CodeParser.parse_file: an exception of the read or of the extraction is
\* caught and appended to parse_errors; what was extracted before stays
parse_file(file) ==
    IF ~file.reads \/ ~file.utf8
    THEN [file_path |-> file.path, functions |-> <<>>, calls |-> <<>>, imports |-> <<>>,
          exports |-> <<>>, parse_errors |-> <<"Parse error">>]
    ELSE IF file.extraction_raises
    THEN [file_path |-> file.path, functions |-> file.found.functions, calls |-> <<>>,
          imports |-> <<>>, exports |-> <<>>, parse_errors |-> <<"Parse error">>]
    ELSE file.found

\* SemanticGraphOrchestrator._parse_files
parse_files(files) == [i \in 1..Len(files) |-> parse_file(files[i])]

\* the tree of a repository all of whose files are found and parsed
TreeOf(parsed_files) ==
    [i \in 1..Len(parsed_files) |->
        TreeFile(parsed_files[i].file_path, TRUE, TRUE, FALSE, parsed_files[i])]

(***************************************************************************)
(* graph_builder.py: CodeGraph and GraphBuilder                            *)
(***************************************************************************)
\* NodeType / EdgeType values
FUNCTION == "function"
FILE == "file"
CALLS == "calls"
IMPORTS == "imports"
EXPORTS == "exports"
DEFINES == "defines"

\* GraphNode(...) with the relationship lists at their defaults
GraphNode(id, name, type, file_path, line_number, is_exported) ==
    [id |-> id, name |-> name, type |-> type, file_path |-> file_path,
     line_number |-> line_number, is_exported |-> is_exported,
     calls |-> <<>>, called_by |-> <<>>, imported_in |-> <<>>]

GraphEdge(source_id, target_id, edge_type, file_path, line_number) ==
    [source_id |-> source_id, target_id |-> target_id, edge_type |-> edge_type,
     file_path |-> file_path, line_number |-> line_number]

\* CodeGraph(): nodes is the dict (a function from IDs), order its key order
CodeGraph ==
    [nodes |-> <<>>, order |-> <<>>, edges |-> <<>>,
     total_functions |-> 0, total_files |-> 0, total_calls |-> 0, total_imports |-> 0]

\* CodeGraph.get_node(id) is not None
HasNode(g, id) == id \in DOMAIN g.nodes

\* x in list
InList(x, list) == \E k \in 1..Len(list) : list[k] = x

\* CodeGraph.add_node: the dict entry is (over)written, the counter always bumped
add_node(g, node) ==
    [g EXCEPT
        !.nodes = (node.id :> node) @@ g.nodes,
        !.order = IF HasNode(g, node.id) THEN @ ELSE Append(@, node.id),
        !.total_functions = IF node.type = FUNCTION THEN @ + 1 ELSE @,
        !.total_files = IF node.type = FUNCTION THEN @
                        ELSE IF node.type = FILE THEN @ + 1 ELSE @]

\* CodeGraph.add_edge
add_edge(g, edge) ==
    [g EXCEPT
        !.edges = Append(@, edge),
        !.total_calls = IF edge.edge_type = CALLS THEN @ + 1 ELSE @,
        !.total_imports = IF edge.edge_type = CALLS THEN @
                          ELSE IF edge.edge_type = IMPORTS THEN @ + 1 ELSE @]

\* GraphBuilder._make_file_id: f"file:{Path(file_path).name}"
make_file_id(file_path) == "file:" \o PathName(file_path)

\* GraphBuilder._make_function_id: f"{Path(file_path).stem}:{func_name}"
make_function_id(file_path, func_name) == PathStem(file_path) \o ":" \o func_name

\* GraphBuilder(): a builder is its graph and its _function_map
GraphBuilder == [graph |-> CodeGraph, function_map |-> <<>>]

\* GraphBuilder._create_file_node
create_file_node(b, parsed_file) ==
    [b EXCEPT !.graph =
        add_node(@, GraphNode(make_file_id(parsed_file.file_path),
                              PathName(parsed_file.file_path), FILE,
                              parsed_file.file_path, 1, FALSE))]

\* one iteration of the loop of GraphBuilder._create_function_nodes
create_function_node(b, func_def) ==
    LET node_id == make_function_id(func_def.file_path, func_def.name)
        node == GraphNode(node_id, func_def.name, FUNCTION, func_def.file_path,
                          func_def.line_number, func_def.is_exported)
        file_id == make_file_id(func_def.file_path)
        edge == GraphEdge(file_id, node_id, DEFINES, func_def.file_path,
                          func_def.line_number)
    IN [graph |-> add_edge(add_node(b.graph, node), edge),
        function_map |-> (func_def.name :> node_id) @@ b.function_map]

RECURSIVE create_function_nodes_from(_, _, _)
create_function_nodes_from(b, functions, i) ==
    IF i > Len(functions) THEN b
    ELSE create_function_nodes_from(create_function_node(b, functions[i]), functions, i + 1)

\* GraphBuilder._create_function_nodes
create_function_nodes(b, parsed_file) ==
    create_function_nodes_from(b, parsed_file.functions, 1)

\* GraphBuilder._resolve_function_id: same file first, then the function map
resolve_function_id(b, func_name, context_file) ==
    LET local_id == make_function_id(context_file, func_name)
    IN IF HasNode(b.graph, local_id) THEN local_id
       ELSE IF func_name \in DOMAIN b.function_map THEN b.function_map[func_name]
       ELSE NONE

\* GraphBuilder._resolve_imported_function
resolve_imported_function(b, func_name) ==
    IF func_name \in DOMAIN b.function_map THEN b.function_map[func_name] ELSE NONE

\* source node of a call: the enclosing function's ID, or the file's
call_source_id(call) ==
    IF call.calling_function # NONE
    THEN make_function_id(call.file_path, call.calling_function)
    ELSE make_file_id(call.file_path)

\* one iteration of the loop of GraphBuilder._create_call_edges
create_call_edge(b, call) ==
    LET source_id == call_source_id(call)
        target_id == resolve_function_id(b, call.function_name, call.file_path)
        g1 == add_edge(b.graph, GraphEdge(source_id, target_id, CALLS,
                                          call.file_path, call.line_number))
        g2 == IF HasNode(g1, source_id) /\ ~InList(target_id, g1.nodes[source_id].calls)
              THEN [g1 EXCEPT !.nodes[source_id].calls = Append(@, target_id)]
              ELSE g1
    IN IF target_id # NONE THEN [b EXCEPT !.graph = g2] ELSE b

RECURSIVE create_call_edges_from(_, _, _)
create_call_edges_from(b, calls, i) ==
    IF i > Len(calls) THEN b
    ELSE create_call_edges_from(create_call_edge(b, calls[i]), calls, i + 1)

\* GraphBuilder._create_call_edges
create_call_edges(b, parsed_file) == create_call_edges_from(b, parsed_file.calls, 1)

\* the inner loop of GraphBuilder._create_import_edges: one edge per resolved name
RECURSIVE create_import_edges_for(_, _, _, _)
create_import_edges_for(b, parsed_file, imp, j) ==
    IF j > Len(imp.imported_names) THEN b
    ELSE LET target_id == resolve_imported_function(b, imp.imported_names[j])
             edge == GraphEdge(make_file_id(parsed_file.file_path), target_id, IMPORTS,
                               parsed_file.file_path, imp.line_number)
             b1 == IF target_id # NONE THEN [b EXCEPT !.graph = add_edge(@, edge)] ELSE b
         IN create_import_edges_for(b1, parsed_file, imp, j + 1)

RECURSIVE create_import_edges_from(_, _, _)
create_import_edges_from(b, parsed_file, i) ==
    IF i > Len(parsed_file.imports) THEN b
    ELSE create_import_edges_from(
            create_import_edges_for(b, parsed_file, parsed_file.imports[i], 1),
            parsed_file, i + 1)

\* GraphBuilder._create_import_edges
create_import_edges(b, parsed_file) == create_import_edges_from(b, parsed_file, 1)

\* the inner loop of GraphBuilder._create_export_edges: an edge when the file
\* defines a node under the exported name
RECURSIVE create_export_edges_for(_, _, _, _)
create_export_edges_for(b, parsed_file, exp, j) ==
    IF j > Len(exp.exported_names) THEN b
    ELSE LET func_id == make_function_id(parsed_file.file_path, exp.exported_names[j])
             edge == GraphEdge(make_file_id(parsed_file.file_path), func_id, EXPORTS,
                               parsed_file.file_path, exp.line_number)
             b1 == IF HasNode(b.graph, func_id)
                   THEN [b EXCEPT !.graph = add_edge(@, edge)] ELSE b
         IN create_export_edges_for(b1, parsed_file, exp, j + 1)

RECURSIVE create_export_edges_from(_, _, _)
create_export_edges_from(b, parsed_file, i) ==
    IF i > Len(parsed_file.exports) THEN b
    ELSE create_export_edges_from(
            create_export_edges_for(b, parsed_file, parsed_file.exports[i], 1),
            parsed_file, i + 1)

\* GraphBuilder._create_export_edges
create_export_edges(b, parsed_file) == create_export_edges_from(b, parsed_file, 1)

\* a faulty _build_reverse_relationships iteration: the `not in` tests are left out
reverse_relationship_unchecked(g, edge) ==
    IF edge.edge_type = CALLS /\ HasNode(g, edge.target_id)
    THEN [g EXCEPT !.nodes[edge.target_id].called_by = Append(@, edge.source_id)]
    ELSE IF edge.edge_type = IMPORTS /\ HasNode(g, edge.target_id)
    THEN [g EXCEPT !.nodes[edge.target_id].imported_in = Append(@, edge.file_path)]
    ELSE g

\* one iteration of the loop of GraphBuilder._build_reverse_relationships
reverse_relationship(g, edge) ==
    IF edge.edge_type = CALLS
    THEN IF HasNode(g, edge.target_id)
            /\ ~InList(edge.source_id, g.nodes[edge.target_id].called_by)
         THEN [g EXCEPT !.nodes[edge.target_id].called_by = Append(@, edge.source_id)]
         ELSE g
    ELSE IF edge.edge_type = IMPORTS
    THEN IF HasNode(g, edge.target_id)
            /\ ~InList(edge.file_path, g.nodes[edge.target_id].imported_in)
         THEN [g EXCEPT !.nodes[edge.target_id].imported_in = Append(@, edge.file_path)]
         ELSE g
    ELSE g

RECURSIVE build_reverse_relationships_from(_, _)
build_reverse_relationships_from(g, i) ==
    IF i > Len(g.edges) THEN g
    ELSE build_reverse_relationships_from(reverse_relationship(g, g.edges[i]), i + 1)

\* GraphBuilder._build_reverse_relationships
build_reverse_relationships(b) ==
    [b EXCEPT !.graph = build_reverse_relationships_from(@, 1)]

\* one phase of GraphBuilder.build_graph: Phase applied to every parsed file in order
RECURSIVE ForEachFile(_, _, _, _)
ForEachFile(Phase(_, _), b, parsed_files, i) ==
    IF i > Len(parsed_files) THEN b
    ELSE ForEachFile(Phase, Phase(b, parsed_files[i]), parsed_files, i + 1)

\* GraphBuilder.build_graph: the six phases, each over all files
builder_build_graph(parsed_files) ==
    LET b1 == ForEachFile(create_file_node, GraphBuilder, parsed_files, 1)
        b2 == ForEachFile(create_function_nodes, b1, parsed_files, 1)
        b3 == ForEachFile(create_call_edges, b2, parsed_files, 1)
        b4 == ForEachFile(create_import_edges, b3, parsed_files, 1)
        b5 == ForEachFile(create_export_edges, b4, parsed_files, 1)
    IN build_reverse_relationships(b5).graph


(***************************************************************************)
(* analyzer.py: CodeAnalyzer indexes and find_all_usages                   *)
(***************************************************************************)
\* Optional[T]: None is the empty list, a value x the list <<x>>
None == <<>>
Some(x) == <<x>>
IsNone(o) == Len(o) = 0
Value(o) == o[1]

\* UsageType values
DEFINITION == "definition"
EXPORT == "export"
IMPORT == "import"
CALL == "call"
TEST == "test"

UsageLocation(usage_type, file_path, line_number, containing_function) ==
    [usage_type |-> usage_type, file_path |-> file_path, line_number |-> line_number,
     containing_function |-> containing_function]

\* the edges of g, in list order, that satisfy Keep
EdgesWhere(g, Keep(_)) == SelectSeq(g.edges, Keep)

\* [f(x) for x in list]
MapSeq(list, F(_)) == [k \in 1..Len(list) |-> F(list[k])]

RECURSIVE Flatten(_)
Flatten(lists) == IF Len(lists) = 0 THEN <<>> ELSE Head(lists) \o Flatten(Tail(lists))

\* a faulty call usage: the path is searched for "test" as written
call_usage_case_sensitive(g, edge) ==
    UsageLocation(IF Contains("test", edge.file_path) THEN TEST ELSE CALL,
                  edge.file_path, edge.line_number,
                  IF HasNode(g, edge.source_id) THEN g.nodes[edge.source_id].name ELSE NONE)

\* the usage emitted for one Calls edge: Test when the edge's path contains
\* "test" in any case, else Call; the enclosing function is the source
\* node's name when the source is a node
call_usage(g, edge) ==
    UsageLocation(IF Contains("test", Lower(edge.file_path)) THEN TEST ELSE CALL,
                  edge.file_path, edge.line_number,
                  IF HasNode(g, edge.source_id) THEN g.nodes[edge.source_id].name ELSE NONE)

\* the usages list CodeAnalyzer._build_usage_index builds for one function node
node_usages(g, node_id) ==
    LET node == g.nodes[node_id]
        definition_usage ==
            UsageLocation(DEFINITION, node.file_path, node.line_number, NONE)
        export_usages ==
            MapSeq(EdgesWhere(g, LAMBDA e : e.target_id = node_id /\ e.edge_type = EXPORTS),
                   LAMBDA e : UsageLocation(EXPORT, e.file_path, e.line_number, NONE))
        import_usages ==
            Flatten(MapSeq(node.imported_in,
                LAMBDA import_file :
                    MapSeq(EdgesWhere(g, LAMBDA e : /\ e.target_id = node_id
                                                    /\ e.edge_type = IMPORTS
                                                    /\ e.file_path = import_file),
                           LAMBDA e : UsageLocation(IMPORT, e.file_path, e.line_number, NONE))))
        call_usages ==
            MapSeq(EdgesWhere(g, LAMBDA e : e.target_id = node_id /\ e.edge_type = CALLS),
                   LAMBDA e : call_usage(g, e))
    IN <<definition_usage>> \o export_usages \o import_usages \o call_usages

\* CodeAnalyzer._build_usage_index: for every function node, in dict order,
\* the list is stored under the node's name and under its ID
RECURSIVE build_usage_index_from(_, _, _)
build_usage_index_from(g, function_usages, i) ==
    IF i > Len(g.order) THEN function_usages
    ELSE LET node_id == g.order[i]
             node == g.nodes[node_id]
             usages == node_usages(g, node_id)
         IN build_usage_index_from(g,
                IF node.type = FUNCTION
                THEN (node_id :> usages) @@ (node.name :> usages) @@ function_usages
                ELSE function_usages,
                i + 1)

build_usage_index(g) == build_usage_index_from(g, <<>>, 1)

\* CodeAnalyzer._build_export_import_indexes: name -> node_id of exported functions
RECURSIVE build_export_import_indexes_from(_, _, _)
build_export_import_indexes_from(g, exported_functions, i) ==
    IF i > Len(g.order) THEN exported_functions
    ELSE LET node == g.nodes[g.order[i]]
         IN build_export_import_indexes_from(g,
                IF node.type = FUNCTION /\ node.is_exported
                THEN (node.name :> node.id) @@ exported_functions
                ELSE exported_functions,
                i + 1)

build_export_import_indexes(g) == build_export_import_indexes_from(g, <<>>, 1)

\* table[key].append(value) on a defaultdict(list)
AppendTo(table, key, value) ==
    IF key \in DOMAIN table THEN [table EXCEPT ![key] = Append(@, value)]
    ELSE (key :> <<value>>) @@ table

\* CodeAnalyzer._build_call_indexes: INDEX 3 (source -> targets) and INDEX 4
\* (target -> sources) from the Calls edges, in list order
RECURSIVE build_call_indexes_from(_, _, _)
build_call_indexes_from(g, indexes, i) ==
    IF i > Len(g.edges) THEN indexes
    ELSE LET edge == g.edges[i]
         IN build_call_indexes_from(g,
                IF edge.edge_type = CALLS
                THEN [function_calls |->
                          AppendTo(indexes.function_calls, edge.source_id, edge.target_id),
                      function_called_by |->
                          AppendTo(indexes.function_called_by, edge.target_id, edge.source_id)]
                ELSE indexes,
                i + 1)

build_call_indexes(g) ==
    build_call_indexes_from(g, [function_calls |-> <<>>, function_called_by |-> <<>>], 1)

\* CodeAnalyzer(graph) followed by create_indexes()
CodeAnalyzer(g) ==
    [indexes |-> [function_usages |-> build_usage_index(g),
                  function_calls |-> build_call_indexes(g).function_calls,
                  function_called_by |-> build_call_indexes(g).function_called_by,
                  exported_functions |-> build_export_import_indexes(g)]]

\* a faulty lookup: table[key] on a defaultdict(list) adds a missing key
index_after_getitem(table, key) ==
    IF key \in DOMAIN table THEN table ELSE (key :> <<>>) @@ table

\* the table after table.get(key): as it was
index_after_get(table, key) == table

\* CodeAnalyzer._get_node_id_by_name(name) or ""
node_id_by_name(an, function_name) ==
    IF function_name \in DOMAIN an.indexes.exported_functions
    THEN an.indexes.exported_functions[function_name] ELSE ""

UsagesOfType(usages, t) == SelectSeq(usages, LAMBDA u : u.usage_type = t)

\* a faulty categorisation loop: the Test branch is missing
usage_report_without_tests(an, function_name, usages) ==
    LET defs == UsagesOfType(usages, DEFINITION)
    IN [function_name |-> function_name,
        node_id |-> node_id_by_name(an, function_name),
        definition |-> IF Len(defs) = 0 THEN None ELSE Some(defs[Len(defs)]),
        exports |-> UsagesOfType(usages, EXPORT),
        imports |-> UsagesOfType(usages, IMPORT),
        calls |-> UsagesOfType(usages, CALL),
        tests |-> <<>>,
        total_usages |-> Len(usages),
        files_affected |-> {usages[k].file_path : k \in 1..Len(usages)}]

\* the categorisation loop of find_all_usages: report.definition is the last
\* Definition usage of the list, the other kinds are appended to their lists
usage_report(an, function_name, usages) ==
    LET defs == UsagesOfType(usages, DEFINITION)
    IN [function_name |-> function_name,
        node_id |-> node_id_by_name(an, function_name),
        definition |-> IF Len(defs) = 0 THEN None ELSE Some(defs[Len(defs)]),
        exports |-> UsagesOfType(usages, EXPORT),
        imports |-> UsagesOfType(usages, IMPORT),
        calls |-> UsagesOfType(usages, CALL),
        tests |-> UsagesOfType(usages, TEST),
        total_usages |-> Len(usages),
        files_affected |-> {usages[k].file_path : k \in 1..Len(usages)}]

\* a faulty find_all_usages: an empty report instead of None
find_all_usages_empty_report(an, function_name) ==
    IF function_name \notin DOMAIN an.indexes.function_usages
    THEN Some([function_name |-> function_name, node_id |-> "", definition |-> None,
               exports |-> <<>>, imports |-> <<>>, calls |-> <<>>, tests |-> <<>>,
               total_usages |-> 0, files_affected |-> {}])
    ELSE Some([function_name |-> function_name,
               node_id |-> node_id_by_name(an, function_name),
               definition |-> Some(an.indexes.function_usages[function_name][1]),
               exports |-> UsagesOfType(an.indexes.function_usages[function_name], EXPORT),
               imports |-> UsagesOfType(an.indexes.function_usages[function_name], IMPORT),
               calls |-> UsagesOfType(an.indexes.function_usages[function_name], CALL),
               tests |-> UsagesOfType(an.indexes.function_usages[function_name], TEST),
               total_usages |-> Len(an.indexes.function_usages[function_name]),
               files_affected |->
                   {an.indexes.function_usages[function_name][k].file_path :
                        k \in 1..Len(an.indexes.function_usages[function_name])}])

\* CodeAnalyzer.find_all_usages: None when the name is no key of INDEX 1 (or
\* its list is empty), else the report
find_all_usages(an, function_name) ==
    IF function_name \notin DOMAIN an.indexes.function_usages THEN None
    ELSE IF Len(an.indexes.function_usages[function_name]) = 0 THEN None
    ELSE Some(usage_report(an, function_name, an.indexes.function_usages[function_name]))

\* the analyzer after find_all_usages: INDEX 1 is read with get, and for a
\* name that has usages the exported names are read with get
after_find_all_usages(an, function_name) ==
    LET looked == [an EXCEPT !.indexes.function_usages = index_after_get(@, function_name)]
    IN IF IsNone(find_all_usages(an, function_name)) THEN looked
       ELSE [looked EXCEPT !.indexes.exported_functions = index_after_get(@, function_name)]

\* CodeAnalyzer.get_callers: the sources INDEX 4 lists for the node ID that
\* the exported names give, [] without one
get_callers(an, function_name) ==
    LET node_id == node_id_by_name(an, function_name)
    IN IF node_id = "" THEN <<>>
       ELSE IF node_id \in DOMAIN an.indexes.function_called_by
       THEN an.indexes.function_called_by[node_id] ELSE <<>>

\* CodeAnalyzer.get_calls: the targets INDEX 3 lists for the node ID
get_calls(an, function_name) ==
    LET node_id == node_id_by_name(an, function_name)
    IN IF node_id = "" THEN <<>>
       ELSE IF node_id \in DOMAIN an.indexes.function_calls
       THEN an.indexes.function_calls[node_id] ELSE <<>>

\* the analyzer after get_callers / get_calls: both tables are read with get
after_get_callers(an, function_name) ==
    LET looked == [an EXCEPT !.indexes.exported_functions = index_after_get(@, function_name)]
    IN IF node_id_by_name(an, function_name) = "" THEN looked
       ELSE [looked EXCEPT !.indexes.function_called_by =
                index_after_get(@, node_id_by_name(an, function_name))]

after_get_calls(an, function_name) ==
    LET looked == [an EXCEPT !.indexes.exported_functions = index_after_get(@, function_name)]
    IN IF node_id_by_name(an, function_name) = "" THEN looked
       ELSE [looked EXCEPT !.indexes.function_calls =
                index_after_get(@, node_id_by_name(an, function_name))]


(***************************************************************************)
(* impact_analyzer.py: criticality, risk score, impact report              *)
(***************************************************************************)
\* CriticalityLevel values
CRITICAL_PATH == "critical_path"
SECONDARY == "secondary"
TERTIARY == "tertiary"
NON_CRITICAL == "non_critical"

\* RiskLevel values
LOW == "low"
MEDIUM == "medium"
HIGH == "high"
CRITICAL == "critical"

\* ImpactAnalyzer.MODULE_PATTERNS, in the dict's (insertion) order
MODULE_PATTERNS ==
    << <<"checkout", CRITICAL_PATH>>, <<"payment", CRITICAL_PATH>>,
       <<"auth", CRITICAL_PATH>>, <<"billing", CRITICAL_PATH>>,
       <<"invoice", SECONDARY>>, <<"report", SECONDARY>>,
       <<"email", SECONDARY>>, <<"notification", SECONDARY>>,
       <<"util", TERTIARY>>, <<"helper", TERTIARY>>,
       <<"validate", TERTIARY>>, <<"format", TERTIARY>>,
       <<"test", NON_CRITICAL>>, <<"spec", NON_CRITICAL>>,
       <<"mock", NON_CRITICAL>>, <<"fixture", NON_CRITICAL>> >>

\* the loop of ImpactAnalyzer._determine_criticality: the first pattern, in
\* dict order, found in the lower-cased path or stem; Secondary when none is
RECURSIVE first_matching_pattern(_, _, _, _)
first_matching_pattern(patterns, file_path_lower, file_name_lower, i) ==
    IF i > Len(patterns) THEN SECONDARY
    ELSE IF \/ Contains(patterns[i][1], file_path_lower)
            \/ Contains(patterns[i][1], file_name_lower)
         THEN patterns[i][2]
         ELSE first_matching_pattern(patterns, file_path_lower, file_name_lower, i + 1)

\* ImpactAnalyzer._determine_criticality
determine_criticality(file_path, file_name) ==
    first_matching_pattern(MODULE_PATTERNS, Lower(file_path), Lower(file_name), 1)

CountOfType(usages, t) == Len(UsagesOfType(usages, t))

\* ImpactAnalyzer._create_module_usage
create_module_usage(file_path, usages) ==
    [file_path |-> file_path,
     criticality |-> determine_criticality(file_path, PathStem(file_path)),
     definition_count |-> CountOfType(usages, DEFINITION),
     export_count |-> CountOfType(usages, EXPORT),
     import_count |-> CountOfType(usages, IMPORT),
     call_count |-> CountOfType(usages, CALL),
     usages |-> usages]

\* the keys of modules_by_file in insertion order: the distinct paths of the
\* list, by first occurrence
RECURSIVE DistinctInOrder(_, _, _)
DistinctInOrder(list, seen, i) ==
    IF i > Len(list) THEN seen
    ELSE DistinctInOrder(list, IF InList(list[i], seen) THEN seen ELSE Append(seen, list[i]),
                         i + 1)

\* a faulty walk of _categorize_by_module: the definition is left out
report_usages_without_definition(usage_report_) ==
    usage_report_.exports \o usage_report_.imports \o usage_report_.calls
        \o usage_report_.tests

\* the usages _categorize_by_module walks: the definition (if any), then the
\* exports, imports, calls and tests lists
report_usages(usage_report_) ==
    usage_report_.definition \o usage_report_.exports \o usage_report_.imports
        \o usage_report_.calls \o usage_report_.tests

\* list.sort(key = criticality order): stable
sort_by_criticality(modules) ==
    SelectSeq(modules, LAMBDA m : m.criticality = CRITICAL_PATH)
        \o SelectSeq(modules, LAMBDA m : m.criticality = SECONDARY)
        \o SelectSeq(modules, LAMBDA m : m.criticality = TERTIARY)
        \o SelectSeq(modules, LAMBDA m : m.criticality = NON_CRITICAL)

\* ImpactAnalyzer._categorize_by_module
categorize_by_module(usage_report_) ==
    LET all == report_usages(usage_report_)
        files == DistinctInOrder(MapSeq(all, LAMBDA u : u.file_path), <<>>, 1)
        modules == MapSeq(files, LAMBDA f :
                        create_module_usage(f, SelectSeq(all, LAMBDA u : u.file_path = f)))
    IN sort_by_criticality(modules)

\* RiskScore(): the dataclass defaults
RiskScore ==
    [critical_path_usages |-> 0, secondary_usages |-> 0, tertiary_usages |-> 0,
     non_critical_usages |-> 0, total_score |-> 0, risk_level |-> LOW]

\* faulty thresholds: each boundary score falls into the level below
risk_level_of_strict(total_score) ==
    IF total_score > 101 THEN CRITICAL
    ELSE IF total_score > 51 THEN HIGH
    ELSE IF total_score > 21 THEN MEDIUM
    ELSE LOW

\* the score thresholds of RiskScore.calculate
risk_level_of(total_score) ==
    IF total_score >= 101 THEN CRITICAL
    ELSE IF total_score >= 51 THEN HIGH
    ELSE IF total_score >= 21 THEN MEDIUM
    ELSE LOW

\* RiskScore.calculate on the four usage counts
risk_score_calculate(critical_path_usages, secondary_usages, tertiary_usages, non_critical_usages) ==
    LET critical_points == critical_path_usages * 10
        secondary_points == secondary_usages * 5
        tertiary_points == tertiary_usages * 2
        non_critical_points == non_critical_usages * 1
        total_score == critical_points + secondary_points + tertiary_points
                        + non_critical_points
    IN [critical_path_usages |-> critical_path_usages,
        secondary_usages |-> secondary_usages,
        tertiary_usages |-> tertiary_usages,
        non_critical_usages |-> non_critical_usages,
        total_score |-> total_score,
        risk_level |-> risk_level_of(total_score)]

\* a faulty count: the modules of one criticality, not their usages
RECURSIVE modules_of_criticality(_, _, _)
modules_of_criticality(modules, criticality, i) ==
    IF i > Len(modules) THEN 0
    ELSE (IF modules[i].criticality = criticality THEN 1 ELSE 0)
            + modules_of_criticality(modules, criticality, i + 1)

\* sum of ModuleUsage.total_usages() over the modules of one criticality
RECURSIVE usages_of_criticality(_, _, _)
usages_of_criticality(modules, criticality, i) ==
    IF i > Len(modules) THEN 0
    ELSE (IF modules[i].criticality = criticality THEN Len(modules[i].usages) ELSE 0)
            + usages_of_criticality(modules, criticality, i + 1)

\* ImpactAnalyzer._calculate_risk_score
calculate_risk_score(modules) ==
    risk_score_calculate(usages_of_criticality(modules, CRITICAL_PATH, 1),
                         usages_of_criticality(modules, SECONDARY, 1),
                         usages_of_criticality(modules, TERTIARY, 1),
                         usages_of_criticality(modules, NON_CRITICAL, 1))

\* ImpactAnalyzer._assess_business_impact
assess_business_impact(modules, risk_score) ==
    IF \E k \in 1..Len(modules) : modules[k].criticality = CRITICAL_PATH
    THEN [revenue_impact_low |-> "$50K/hour", revenue_impact_high |-> "$500K/hour",
          affected_users |-> "ALL users (100% of transactions)",
          recovery_time |-> "3-6 hours"]
    ELSE IF risk_score.risk_level = HIGH
    THEN [revenue_impact_low |-> "$10K/hour", revenue_impact_high |-> "$100K/hour",
          affected_users |-> "Many users (30-70% of transactions)",
          recovery_time |-> "1-3 hours"]
    ELSE IF risk_score.risk_level = MEDIUM
    THEN [revenue_impact_low |-> "$1K/hour", revenue_impact_high |-> "$20K/hour",
          affected_users |-> "Some users (10-30% of transactions)",
          recovery_time |-> "0.5-2 hours"]
    ELSE [revenue_impact_low |-> "$0/hour", revenue_impact_high |-> "$5K/hour",
          affected_users |-> "Few users or developers only",
          recovery_time |-> "0.5-1 hour"]

\* ImpactAnalyzer.assess_change_impact
impact_assess_change_impact(an, function_name, change_description) ==
    LET found == find_all_usages(an, function_name)
        modules == categorize_by_module(Value(found))
        risk_score == calculate_risk_score(modules)
    IN IF IsNone(found) THEN None
       ELSE Some([function_name |-> function_name,
                  change_description |-> change_description,
                  total_usages |-> Value(found).total_usages,
                  total_files |-> Cardinality(Value(found).files_affected),
                  modules |-> modules,
                  risk_score |-> risk_score,
                  business_impact |-> assess_business_impact(modules, risk_score)])

(***************************************************************************)
(* risk_calculator.py: the fixed failure-mode table                        *)
(***************************************************************************)
\* RiskCalculator.calculate_failure_modes: the same five modes for any input
calculate_failure_modes(function_name, change_type) ==
    [function_name |-> function_name, change_type |-> change_type,
     failure_modes |-> <<"missed_usage", "inconsistent_rename", "type_mismatch",
                         "test_failure", "documentation_sync">>]


(***************************************************************************)
(* orchestrator.py: SemanticGraphOrchestrator                              *)
(***************************************************************************)
\* arguments the operations are called with: a defined name, a second one,
\* an unknown name, a node ID
QueryNames == {"a", "b", "nope", "calc:a"}
ChangeDescriptions == {"Rename to c"}
ChangeTypes == {"delete"}
\* build_graph(storage_path): no dump, a dump into an existing directory, a
\* dump into a directory that does not exist
StoragePaths == {NONE, "/out/code_graph.json", "/missing/code_graph.json"}
ExistingDirs == {"/out"}

\* GraphBuilder.save_to_json: open(output_path, 'w') raises when the directory
\* of the path does not exist
save_to_json_raises(output_path) ==
    SubSeq(output_path, 1, LastIndexOf("/", output_path, Len(output_path)) - 1)
        \notin ExistingDirs

NOT_BUILT == "Graph not built. Call build_graph() first."

\* outcomes of an operation: it raised an exception or returned a value
Raised(op, name, error) ==
    [op |-> op, name |-> name, outcome |-> "raised", error |-> error, value |-> None]
Returned(op, name, value) ==
    [op |-> op, name |-> name, outcome |-> "returned", error |-> "", value |-> value]

VARIABLES
    orchestrators,    \* api: the cache _orchestrators, repo_path -> orchestrator
    pc,               \* the position of a thread inside build_graph
    tree,             \* the files below the repository path
    repo,             \* the files of the repository as CodeParser returns them:
                      \* parse_files(discover_files(tree))
    graph,            \* orchestrator.graph: Optional[CodeGraph]
    analyzer,         \* orchestrator.analyzer: Optional[CodeAnalyzer]
    impact_analyzer,  \* orchestrator.impact_analyzer is not None (it wraps analyzer)
    risk_calculator,  \* orchestrator.risk_calculator is not None
    stats,            \* orchestrator.stats
    built,            \* history: some build_graph call has returned normally
    history,          \* history: the alternation of builds that returned normally
                      \* ("build") and changes of the files ("edit") so far
    result,           \* outcome of the last public operation
    score             \* a RiskScore object of its own (see SpecRisk)

vars ==
    <<orchestrators, pc, tree, repo, graph, analyzer, impact_analyzer, risk_calculator, stats, built, history,
      result, score>>

RECURSIVE SumOver(_, _, _)
SumOver(list, F(_), i) == IF i > Len(list) THEN 0 ELSE F(list[i]) + SumOver(list, F, i + 1)

\* SemanticGraphOrchestrator.__init__ on a repository
Init ==
    /\ \E ps \in PathLists(MaxFiles) :
       \E d \in Placements(DefItems, MaxDefs, Len(ps)),
          c \in Placements(CallItems, MaxCalls, Len(ps)),
          im \in Placements(ImportNameLists, MaxImports, Len(ps)),
          ex \in Placements(ExportNameLists, MaxExports, Len(ps)) :
            \* _parse_python extracts no export statements
            /\ \A k \in 1..Len(ex) : ~IsPython(ps[ex[k].file])
            \* in Python the enclosing name of a call is a function_definition,
            \* which _extract_python_functions records as well
            /\ \A k \in 1..Len(c) :
                  IsPython(ps[c[k].file]) /\ c[k].item.caller # NONE
                  => \E j \in 1..Len(d) : /\ d[j].file = c[k].file
                                          /\ d[j].item.name = c[k].item.caller
            /\ Len(d) + Len(c) + Len(im) + Len(ex) <= MaxItems
            /\ repo = Repository(ps, d, c, im, ex)
    /\ orchestrators = <<>>
    /\ pc = "idle"
    /\ tree = TreeOf(repo)
    /\ graph = None
    /\ analyzer = None
    /\ impact_analyzer = FALSE
    /\ risk_calculator = FALSE
    /\ stats = [files_discovered |-> 0, files_parsed |-> 0, functions_found |-> 0,
                edges_created |-> 0]
    /\ built = FALSE
    /\ history = <<>>
    /\ result = Returned("__init__", NONE, None)
    /\ score = RiskScore

\* the history with the event added, an event that repeats recorded once
Recorded(events, event) ==
    IF Len(events) > 0 /\ events[Len(events)] = event THEN events
    ELSE Append(events, event)

\* a faulty _build_graph: the builder of the previous build is used again, so
\* the new nodes and edges are added to the graph it holds
orchestrator_build_graph_reusing(held, parsed_files) ==
    LET g == builder_build_graph(parsed_files)
    IN IF IsNone(held) THEN g
       ELSE LET h == Value(held)
            IN [nodes |-> g.nodes @@ h.nodes,
                order |-> h.order \o SelectSeq(g.order, LAMBDA id : ~HasNode(h, id)),
                edges |-> h.edges \o g.edges,
                total_functions |-> h.total_functions + g.total_functions,
                total_files |-> h.total_files + g.total_files,
                total_calls |-> h.total_calls + g.total_calls,
                total_imports |-> h.total_imports + g.total_imports]

\* SemanticGraphOrchestrator._build_graph: a new GraphBuilder builds the
\* graph, whatever graph the orchestrator held
orchestrator_build_graph(held, parsed_files) == builder_build_graph(parsed_files)

\* what the repository path names when build_graph is called
RootStates == {"directory", "file", "missing"}

\* FileDiscovery.__init__: the ValueError it raises, NONE for a directory
file_discovery_error(root) ==
    IF root = "missing" THEN "Path does not exist"
    ELSE IF root = "file" THEN "Path is not a directory"
    ELSE NONE

\* the attributes of the orchestrator that build_graph assigns
Components ==
    [graph |-> graph, analyzer |-> analyzer, impact_analyzer |-> impact_analyzer,
     risk_calculator |-> risk_calculator, stats |-> stats]

\* a faulty start of build_graph: the components are cleared before step 1
discover_files_raised_cleared(o) ==
    [o EXCEPT !.graph = None, !.analyzer = None, !.impact_analyzer = FALSE,
              !.risk_calculator = FALSE]

\* build_graph up to the exception of _discover_files: FileDiscovery(...)
\* raises before anything is assigned
discover_files_raised(o) == o

\* SemanticGraphOrchestrator.build_graph(storage_path): step 1 raises for a
\* path that is no directory; else steps 1-4, then the optional dump, whose
\* exception leaves the method after everything is assigned
BuildGraph ==
    \E root \in RootStates :
       IF file_discovery_error(root) # NONE
       THEN LET o == discover_files_raised(Components)
            IN /\ graph' = o.graph
               /\ analyzer' = o.analyzer
               /\ impact_analyzer' = o.impact_analyzer
               /\ risk_calculator' = o.risk_calculator
               /\ stats' = o.stats
               /\ result' = Raised("build_graph", NONE, file_discovery_error(root))
               /\ UNCHANGED <<orchestrators, pc, tree, repo, built, history, score>>
       ELSE
         LET g == orchestrator_build_graph(graph, repo)
             an == CodeAnalyzer(g)
         IN \E storage_path \in StoragePaths :
            /\ stats' = [files_discovered |-> Len(repo), files_parsed |-> Len(repo),
                         functions_found |-> SumOver(repo, LAMBDA pf : Len(pf.functions), 1),
                         edges_created |-> Len(g.edges)]
            /\ graph' = Some(g)
            /\ analyzer' = Some(an)
            /\ impact_analyzer' = TRUE
            /\ risk_calculator' = TRUE
            /\ IF storage_path # NONE /\ save_to_json_raises(storage_path)
               THEN /\ result' = Raised("build_graph", NONE, "FileNotFoundError")
                    /\ built' = built
                    /\ history' = history
               ELSE /\ result' = Returned("build_graph", NONE, None)
                    /\ built' = TRUE
                    /\ history' = Recorded(history, "build")
            /\ UNCHANGED <<orchestrators, pc, tree, repo, score>>

\* SemanticGraphOrchestrator.find_usages
find_usages(function_name) ==
    IF IsNone(analyzer) THEN Raised("find_usages", function_name, NOT_BUILT)
    ELSE Returned("find_usages", function_name,
                  find_all_usages(Value(analyzer), function_name))

\* SemanticGraphOrchestrator.assess_change_impact
assess_change_impact(function_name, change_description) ==
    IF ~impact_analyzer THEN Raised("assess_change_impact", function_name, NOT_BUILT)
    ELSE Returned("assess_change_impact", function_name,
                  impact_assess_change_impact(Value(analyzer), function_name,
                                              change_description))

\* SemanticGraphOrchestrator.calculate_risk
calculate_risk(function_name, change_type) ==
    IF ~risk_calculator THEN Raised("calculate_risk", function_name, NOT_BUILT)
    ELSE Returned("calculate_risk", function_name,
                  Some(calculate_failure_modes(function_name, change_type)))

\* SemanticGraphOrchestrator.get_complete_analysis
get_complete_analysis(function_name, change_description) ==
    LET usage == find_usages(function_name)
        impact == assess_change_impact(function_name, change_description)
        risk == calculate_risk(function_name, "rename")
    IN IF IsNone(analyzer)
       THEN Raised("get_complete_analysis", function_name, NOT_BUILT)
       ELSE IF IsNone(usage.value)
       THEN Returned("get_complete_analysis", function_name,
                     Some([error |-> "Function not found"]))
       ELSE IF impact.outcome = "raised"
       THEN Raised("get_complete_analysis", function_name, impact.error)
       ELSE IF risk.outcome = "raised"
       THEN Raised("get_complete_analysis", function_name, risk.error)
       ELSE Returned("get_complete_analysis", function_name,
                     Some([function_name |-> function_name,
                           change_description |-> change_description,
                           usage_report |-> usage.value,
                           impact_assessment |-> impact.value,
                           risk_analysis |-> risk.value,
                           statistics |-> stats]))

\* SemanticGraphOrchestrator.get_statistics: the build statistics and, when a
\* graph is held, its counters; no test of the components precedes it
statistics_of(o) ==
    [files_discovered |-> o.stats.files_discovered,
     files_parsed |-> o.stats.files_parsed,
     functions_found |-> o.stats.functions_found,
     edges_created |-> o.stats.edges_created,
     graph_stats |->
         IF IsNone(o.graph) THEN None
         ELSE Some([total_functions |-> Value(o.graph).total_functions,
                    total_files |-> Value(o.graph).total_files,
                    total_calls |-> Value(o.graph).total_calls,
                    total_imports |-> Value(o.graph).total_imports])]

get_statistics == Returned("get_statistics", NONE, Some(statistics_of(Components)))

Frame ==
    UNCHANGED <<orchestrators, pc, tree, repo, graph, analyzer, impact_analyzer, risk_calculator, stats, built,
                history, score>>

\* what an operation that reads the analyzer's indexes leaves alone
FrameOfLookup ==
    UNCHANGED <<orchestrators, pc, tree, repo, graph, impact_analyzer, risk_calculator, stats, built, history,
                score>>

\* the orchestrator's analyzer after the lookups of find_all_usages
analyzer_after_lookup(function_name) ==
    IF IsNone(analyzer) THEN analyzer
    ELSE Some(after_find_all_usages(Value(analyzer), function_name))

FindUsages(function_name) ==
    /\ result' = find_usages(function_name)
    /\ analyzer' = analyzer_after_lookup(function_name)
    /\ FrameOfLookup

AssessChangeImpact(function_name, change_description) ==
    /\ result' = assess_change_impact(function_name, change_description)
    /\ analyzer' = IF impact_analyzer THEN analyzer_after_lookup(function_name) ELSE analyzer
    /\ FrameOfLookup

CalculateRisk(function_name, change_type) ==
    result' = calculate_risk(function_name, change_type) /\ Frame

GetCompleteAnalysis(function_name, change_description) ==
    /\ result' = get_complete_analysis(function_name, change_description)
    /\ analyzer' = analyzer_after_lookup(function_name)
    /\ FrameOfLookup

\* orchestrator.analyzer.get_callers, on an orchestrator that has an analyzer
GetCallers(function_name) ==
    /\ ~IsNone(analyzer)
    /\ result' = Returned("get_callers", function_name,
                          Some(get_callers(Value(analyzer), function_name)))
    /\ analyzer' = Some(after_get_callers(Value(analyzer), function_name))
    /\ FrameOfLookup

\* orchestrator.analyzer.get_calls, on an orchestrator that has an analyzer
GetCalls(function_name) ==
    /\ ~IsNone(analyzer)
    /\ result' = Returned("get_calls", function_name,
                          Some(get_calls(Value(analyzer), function_name)))
    /\ analyzer' = Some(after_get_calls(Value(analyzer), function_name))
    /\ FrameOfLookup

GetStatistics ==
    result' = get_statistics /\ Frame

Next ==
    \/ BuildGraph
    \/ \E n \in QueryNames : FindUsages(n)
    \/ \E n \in QueryNames, d \in ChangeDescriptions : AssessChangeImpact(n, d)
    \/ \E n \in QueryNames, t \in ChangeTypes : CalculateRisk(n, t)
    \/ \E n \in QueryNames, d \in ChangeDescriptions : GetCompleteAnalysis(n, d)
    \/ GetStatistics

Spec == Init /\ [][Next]_vars

(***************************************************************************)
(* RiskScore on its own: calculate() applied to arbitrary usage counts     *)
(***************************************************************************)
MaxTierUsages == 10   \* usages per criticality tier

InitRisk ==
    /\ \E c, s, t, n \in 0..MaxTierUsages :
          score = [RiskScore EXCEPT !.critical_path_usages = c, !.secondary_usages = s,
                                    !.tertiary_usages = t, !.non_critical_usages = n]
    /\ repo = <<>>
    /\ orchestrators = <<>>
    /\ pc = "idle"
    /\ tree = TreeOf(repo)
    /\ graph = None
    /\ analyzer = None
    /\ impact_analyzer = FALSE
    /\ risk_calculator = FALSE
    /\ stats = [files_discovered |-> 0, files_parsed |-> 0, functions_found |-> 0,
                edges_created |-> 0]
    /\ built = FALSE
    /\ history = <<>>
    /\ result = Returned("RiskScore", NONE, None)

\* RiskScore.calculate on the object's counts
Calculate ==
    /\ score' = risk_score_calculate(score.critical_path_usages, score.secondary_usages,
                                     score.tertiary_usages, score.non_critical_usages)
    /\ result' = Returned("calculate", NONE, None)
    /\ UNCHANGED <<orchestrators, pc, tree, repo, graph, analyzer, impact_analyzer, risk_calculator, stats,
                   built, history>>

NextRisk == Calculate

SpecRisk == InitRisk /\ [][NextRisk]_vars

(***************************************************************************)
(* Properties                                                              *)
(***************************************************************************)
QueryOps == {"find_usages", "assess_change_impact", "calculate_risk", "get_complete_analysis"}

\* the IDs of the function nodes of g
FunctionNodes(g) == {id \in DOMAIN g.nodes : g.nodes[id].type = FUNCTION}

\* name is the display name or the node ID of a function node of g
IsFunctionKey(g, name) ==
    \E id \in FunctionNodes(g) : name = id \/ name = g.nodes[id].name

\* the last operation returned a report (not None)
ReturnedReport(op) ==
    result.op = op /\ result.outcome = "returned" /\ ~IsNone(result.value)

\* C1: as long as no build_graph call has completed successfully, every query
\* (find_usages, assess_change_impact, calculate_risk, get_complete_analysis)
\* raises the "Graph not built" error, whatever its argument.
NotBuiltUntilBuildSucceeds ==
    (~built /\ result.op \in QueryOps)
        => (result.outcome = "raised" /\ result.error = NOT_BUILT)

\* C2: after a successful build, find_usages and assess_change_impact return
\* None (no error, no empty report) for every name that is neither the display
\* name nor the node ID of a function node of the graph.
UnknownNameIsAbsent ==
    (/\ built
     /\ result.op \in {"find_usages", "assess_change_impact"}
     /\ ~IsFunctionKey(Value(graph), result.name))
        => (result.outcome = "returned" /\ IsNone(result.value))

\* an ID-shaped name that is no node of a graph that has function nodes
UnknownNameQueried ==
    /\ built
    /\ result.op = "assess_change_impact"
    /\ result.name = "calc:a"
    /\ FunctionNodes(Value(graph)) # {}
    /\ ~IsFunctionKey(Value(graph), result.name)
    /\ IsNone(result.value)

\* C3: for every function F of a built graph the report find_usages(F.name)
\* returns has its definition present and
\* total_usages = 1 + |exports| + |imports| + |calls| + |tests|.
TotalUsagesIsSum ==
    (/\ built
     /\ result.op = "find_usages"
     /\ \E id \in FunctionNodes(Value(graph)) : Value(graph).nodes[id].name = result.name)
        => /\ ReturnedReport("find_usages")
           /\ LET r == Value(result.value)
              IN /\ ~IsNone(r.definition)
                 /\ r.total_usages =
                        1 + Len(r.exports) + Len(r.imports) + Len(r.calls) + Len(r.tests)

\* a report with an import and a test usage next to the definition
MixedUsagesReported ==
    /\ built
    /\ ReturnedReport("find_usages")
    /\ Len(Value(result.value).imports) >= 1
    /\ Len(Value(result.value).tests) >= 1

\* the substrings of the NonCritical tier
NonCriticalSubstrings == {"test", "spec", "mock", "fixture"}

\* C4: every module of an impact report whose path contains a NonCritical
\* substring (test, spec, mock, fixture) is classified NonCritical, even when
\* the path also contains a substring of another tier.
NonCriticalProbedFirst ==
    ReturnedReport("assess_change_impact")
        => \A k \in 1..Len(Value(result.value).modules) :
              LET m == Value(result.value).modules[k]
              IN (\E sub \in NonCriticalSubstrings : Contains(sub, Lower(m.file_path)))
                    => m.criticality = NON_CRITICAL

\* the usages find_usages reports for the name of the last operation
UsagesOf(name) == report_usages(Value(find_all_usages(Value(analyzer), name)))

\* how many of the usages lie in files of the given tier
UsagesInTier(usages, tier) ==
    Cardinality({k \in 1..Len(usages) :
        determine_criticality(usages[k].file_path, PathStem(usages[k].file_path)) = tier})

\* C5: in every impact report total_score = 10*c + 5*s + 2*t + 1*n, where c, s,
\* t, n count the usages (of every kind) in files classified CriticalPath,
\* Secondary, Tertiary and NonCritical, and c + s + t + n = total_usages.
ScoreIsWeightedSum ==
    ReturnedReport("assess_change_impact")
        => LET r == Value(result.value)
               usages == UsagesOf(result.name)
               c == UsagesInTier(usages, CRITICAL_PATH)
               s2 == UsagesInTier(usages, SECONDARY)
               t == UsagesInTier(usages, TERTIARY)
               n == UsagesInTier(usages, NON_CRITICAL)
           IN /\ r.risk_score.total_score = 10 * c + 5 * s2 + 2 * t + 1 * n
              /\ c + s2 + t + n = r.total_usages

\* a report whose usages lie in two tiers, one of them holding several usages
TwoTiersScored ==
    /\ ReturnedReport("assess_change_impact")
    /\ Value(result.value).risk_score.critical_path_usages >= 2
    /\ Value(result.value).risk_score.non_critical_usages >= 1

\* C6: the risk level is decided by the total score alone: 0..20 Low,
\* 21..50 Medium, 51..100 High, 101 and above Critical.
LevelFollowsThresholds ==
    result.op = "calculate"
        => score.risk_level =
              (IF score.total_score <= 20 THEN LOW
               ELSE IF score.total_score <= 50 THEN MEDIUM
               ELSE IF score.total_score <= 100 THEN HIGH
               ELSE CRITICAL)

\* a calculated score on the boundary 101
BoundaryScored ==
    result.op = "calculate" /\ score.total_score = 101 /\ score.risk_level = CRITICAL

\* the edges of g of one type
EdgesOfType(g, edge_type) ==
    {k \in 1..Len(g.edges) : g.edges[k].edge_type = edge_type}

\* C7: in the graph a successful build_graph returns, every Defines edge goes
\* from a File node to a Function node, and the function's file_path is the
\* File node's file_path.
DefinesEdgesStayInFile ==
    built => LET g == Value(graph)
             IN \A k \in EdgesOfType(g, DEFINES) :
                   /\ HasNode(g, g.edges[k].source_id)
                   /\ HasNode(g, g.edges[k].target_id)
                   /\ g.nodes[g.edges[k].source_id].type = FILE
                   /\ g.nodes[g.edges[k].target_id].type = FUNCTION
                   /\ g.nodes[g.edges[k].target_id].file_path
                        = g.nodes[g.edges[k].source_id].file_path

\* C8: in the graph a successful build_graph returns, every Calls edge has a
\* Function or File node of the graph as source and a Function node of the
\* graph as target.
CallsEdgesJoinNodes ==
    built => LET g == Value(graph)
             IN \A k \in EdgesOfType(g, CALLS) :
                   /\ HasNode(g, g.edges[k].source_id)
                   /\ g.nodes[g.edges[k].source_id].type \in {FUNCTION, FILE}
                   /\ HasNode(g, g.edges[k].target_id)
                   /\ g.nodes[g.edges[k].target_id].type = FUNCTION

\* C9: in the graph a successful build_graph returns, the source and the
\* target of every edge, of every type, are keys of the node map.
EdgeEndpointsAreNodes ==
    built => LET g == Value(graph)
             IN \A k \in 1..Len(g.edges) :
                   HasNode(g, g.edges[k].source_id) /\ HasNode(g, g.edges[k].target_id)

\* every ID the graph mentions: node keys, edge endpoints, called_by entries
MentionedIds(g) ==
    DOMAIN g.nodes
        \cup {g.edges[k].source_id : k \in 1..Len(g.edges)}
        \cup {g.edges[k].target_id : k \in 1..Len(g.edges)}
        \cup UNION {{g.nodes[id].called_by[k] : k \in 1..Len(g.nodes[id].called_by)} :
                        id \in DOMAIN g.nodes}

\* C10: after build_graph, S is in T.called_by exactly when the edge list
\* holds a Calls edge from S to T, for every node T and every ID S, and no
\* called_by list holds an ID twice.
CalledByMirrorsCallsEdges ==
    built => LET g == Value(graph)
             IN \A target \in DOMAIN g.nodes :
                   LET called_by == g.nodes[target].called_by
                   IN /\ \A source \in MentionedIds(g) :
                            InList(source, called_by)
                                <=> \E k \in EdgesOfType(g, CALLS) :
                                        /\ g.edges[k].source_id = source
                                        /\ g.edges[k].target_id = target
                      /\ \A i, j \in 1..Len(called_by) :
                            called_by[i] = called_by[j] => i = j

\* a function with two Calls edges from the same source
RepeatedCallerRecordedOnce ==
    /\ built
    /\ \E target \in DOMAIN Value(graph).nodes :
          LET g == Value(graph)
          IN /\ Len(g.nodes[target].called_by) = 1
             /\ Cardinality({k \in EdgesOfType(g, CALLS) : g.edges[k].target_id = target}) = 2

\* every function definition of the repository, in processing order: files in
\* order, the functions of a file in order
AllDefinitions(parsed_files) == Flatten(MapSeq(parsed_files, LAMBDA pf : pf.functions))

\* the first definition processed that yields the function node ID
RECURSIVE FirstDefinitionOf(_, _, _)
FirstDefinitionOf(defs, id, i) ==
    IF make_function_id(defs[i].file_path, defs[i].name) = id THEN defs[i]
    ELSE FirstDefinitionOf(defs, id, i + 1)

\* C11: when two definitions yield the same function node ID, the node the
\* graph keeps is the one of the first definition processed
FirstDefinitionKept ==
    built => LET g == Value(graph)
                 defs == AllDefinitions(repo)
             IN \A id \in FunctionNodes(g) :
                   LET first == FirstDefinitionOf(defs, id, 1)
                   IN /\ g.nodes[id].file_path = first.file_path
                      /\ g.nodes[id].line_number = first.line_number
                      /\ g.nodes[id].is_exported = first.is_exported

(***************************************************************************)
(* Builds of repositories of up to three files with three different stems  *)
(***************************************************************************)
MaxBuildFiles == 3   \* files in the repository
\* three stems; one path has "Test" in capitals
BuildPaths == {"/r/Checkout.test.js", "/r/a/calc.py", "/r/lib/UtilTest.py"}

\* as PathLists, over BuildPaths
BuildPathLists(n) ==
    {ps \in SeqsUpTo(BuildPaths, n) :
        \A i, j \in 1..Len(ps) : i < j => ps[i] # ps[j] /\ Depth(ps[i]) <= Depth(ps[j])}

\* SemanticGraphOrchestrator.__init__ on a repository of these files
InitBuild ==
    /\ \E ps \in BuildPathLists(MaxBuildFiles) :
       \E d \in Placements(DefItems, MaxDefs, Len(ps)),
          c \in Placements(CallItems, MaxCalls, Len(ps)),
          im \in Placements(ImportNameLists, MaxImports, Len(ps)),
          ex \in Placements(ExportNameLists, MaxExports, Len(ps)) :
            /\ \A k \in 1..Len(ex) : ~IsPython(ps[ex[k].file])
            /\ \A k \in 1..Len(c) :
                  IsPython(ps[c[k].file]) /\ c[k].item.caller # NONE
                  => \E j \in 1..Len(d) : /\ d[j].file = c[k].file
                                          /\ d[j].item.name = c[k].item.caller
            /\ Len(d) + Len(c) + Len(im) + Len(ex) <= MaxItems
            /\ repo = Repository(ps, d, c, im, ex)
    /\ orchestrators = <<>>
    /\ pc = "idle"
    /\ tree = TreeOf(repo)
    /\ graph = None
    /\ analyzer = None
    /\ impact_analyzer = FALSE
    /\ risk_calculator = FALSE
    /\ stats = [files_discovered |-> 0, files_parsed |-> 0, functions_found |-> 0,
                edges_created |-> 0]
    /\ built = FALSE
    /\ history = <<>>
    /\ result = Returned("__init__", NONE, None)
    /\ score = RiskScore

NextBuild == BuildGraph

SpecBuild == InitBuild /\ [][NextBuild]_vars

\* some definition of the repository has the name
IsDefinedName(defs, name) == \E i \in 1..Len(defs) : defs[i].name = name

\* the node ID of the first definition processed that has the name
RECURSIVE FirstIdNamed(_, _, _)
FirstIdNamed(defs, name, i) ==
    IF defs[i].name = name THEN make_function_id(defs[i].file_path, name)
    ELSE FirstIdNamed(defs, name, i + 1)

\* the graph has an edge of the type, created at the line of the file, and
\* every such edge has the target
EdgeAtLineTargets(g, edge_type, file_path, line_number, target_id) ==
    /\ \E i \in 1..Len(g.edges) :
          /\ g.edges[i].edge_type = edge_type
          /\ g.edges[i].file_path = file_path
          /\ g.edges[i].line_number = line_number
    /\ \A i \in 1..Len(g.edges) :
          /\ g.edges[i].edge_type = edge_type
          /\ g.edges[i].file_path = file_path
          /\ g.edges[i].line_number = line_number
          => g.edges[i].target_id = target_id

\* C12: a called or imported name that the referencing file does not define
\* resolves to the first function node registered under the name, in
\* file-processing order
GlobalTableKeepsFirst ==
    built =>
      LET g == Value(graph)
          defs == AllDefinitions(repo)
      IN \A f \in 1..Len(repo) :
            /\ \A k \in 1..Len(repo[f].calls) :
                  LET call == repo[f].calls[k]
                      name == call.function_name
                  IN IsDefinedName(defs, name)
                     /\ ~HasNode(g, make_function_id(repo[f].file_path, name))
                     => EdgeAtLineTargets(g, CALLS, repo[f].file_path, call.line_number,
                                          FirstIdNamed(defs, name, 1))
            /\ \A k \in 1..Len(repo[f].imports) :
                  LET imp == repo[f].imports[k]
                  IN \A j \in 1..Len(imp.imported_names) :
                        LET name == imp.imported_names[j]
                        IN IsDefinedName(defs, name)
                           /\ ~HasNode(g, make_function_id(repo[f].file_path, name))
                           => EdgeAtLineTargets(g, IMPORTS, repo[f].file_path,
                                                imp.line_number,
                                                FirstIdNamed(defs, name, 1))

\* C13: looking a function node up by its display name and by its node ID
\* reports the same usage locations, also when another file defines a
\* function of the same display name
NameAndIdReportSameUsages ==
    built => LET g == Value(graph)
             IN \A id \in FunctionNodes(g) : UsagesOf(g.nodes[id].name) = UsagesOf(id)

\* the usages of the list that lie at the line of the file
UsagesAt(usages, file_path, line_number) ==
    {k \in 1..Len(usages) : /\ usages[k].file_path = file_path
                            /\ usages[k].line_number = line_number}

\* the positions of the graph's edges of the type that target the node
EdgesInto(g, edge_type, node_id) ==
    {i \in 1..Len(g.edges) : /\ g.edges[i].edge_type = edge_type
                             /\ g.edges[i].target_id = node_id}

\* C14: every Calls edge that targets a function node yields exactly one
\* usage of the node, a Test usage when the path of the edge contains "test"
\* in any case and a Call usage otherwise, and the node has no other Call or
\* Test usage: its definition, export and import usages keep their kind in
\* a test file too
CallUsagesClassifiedByPath ==
    ~IsNone(graph) /\ ~IsNone(analyzer) =>
      LET g == Value(graph)
          index == Value(analyzer).indexes.function_usages
      IN \A id \in FunctionNodes(g) :
            LET usages == index[id]
                of_kind(kinds) == {k \in 1..Len(usages) : usages[k].usage_type \in kinds}
            IN /\ \A i \in EdgesInto(g, CALLS, id) :
                     LET e == g.edges[i]
                         at == UsagesAt(usages, e.file_path, e.line_number)
                                  \cap of_kind({CALL, TEST})
                     IN /\ Cardinality(at) = 1
                        /\ \A k \in at :
                              usages[k].usage_type =
                                 IF Contains("test", Lower(e.file_path)) THEN TEST ELSE CALL
               /\ Cardinality(of_kind({CALL, TEST})) = Cardinality(EdgesInto(g, CALLS, id))
               /\ usages[1].usage_type = DEFINITION
               /\ usages[1].file_path = g.nodes[id].file_path
               /\ Cardinality(of_kind({DEFINITION})) = 1
               /\ Cardinality(of_kind({EXPORT})) = Cardinality(EdgesInto(g, EXPORTS, id))
               /\ Cardinality(of_kind({IMPORT})) = Cardinality(EdgesInto(g, IMPORTS, id))

\* a call in UtilTest.py is reported as a Test usage of a function that is
\* defined in a test file and exported there
TestCallOfTestFileFunction ==
    /\ ~IsNone(graph) /\ ~IsNone(analyzer)
    /\ \E id \in FunctionNodes(Value(graph)) :
          LET usages == Value(analyzer).indexes.function_usages[id]
          IN /\ Contains("test", Lower(usages[1].file_path))
             /\ \E k \in 1..Len(usages) : /\ usages[k].usage_type = TEST
                                          /\ usages[k].file_path = "/r/lib/UtilTest.py"
             /\ \E k \in 1..Len(usages) : usages[k].usage_type = EXPORT

\* C15: while no build_graph call has returned, build_graph is the only
\* operation that succeeds; every other one, get_statistics included, fails
\* with the not-built error
OnlyBuildSucceedsWhenEmpty ==
    ~built /\ result.op \notin {"__init__", "build_graph"}
    => /\ result.outcome = "raised"
       /\ result.error = NOT_BUILT

\* the last operation was a build_graph call that failed on the repository path
BuildFailedOnPath ==
    /\ result.op = "build_graph"
    /\ result.outcome = "raised"
    /\ result.error \in {"Path does not exist", "Path is not a directory"}

\* C16: a build_graph call on a path that does not exist or is no directory
\* fails and changes nothing: graph, analyzer, indexes and statistics keep
\* the values they had, an orchestrator that was never built stays so and a
\* built one keeps its previous build
FailedDiscoveryChangesNothing ==
    [][BuildFailedOnPath' =>
          UNCHANGED <<repo, graph, analyzer, impact_analyzer, risk_calculator, stats,
                      built>>]_vars

\* the build of a built orchestrator has failed on the path, and the graph
\* and the statistics of the previous build are still held
FailedRebuildKeepsBuild ==
    /\ BuildFailedOnPath
    /\ built
    /\ ~IsNone(graph)
    /\ stats.functions_found > 0

(***************************************************************************)
(* Builds, changes of the files between builds, and queries                *)
(***************************************************************************)
MaxRebuildFiles == 1   \* files in the repository
MaxRebuildItems == 2   \* definitions, calls, imports and exports together
MaxHistory == 3        \* recorded alternations of builds and changes

\* the repositories with the paths ps and at most max_items records, under
\* the conditions of Init
RepositoriesOf(ps, max_items) ==
    {Repository(ps, t[1], t[2], t[3], t[4]) :
        t \in {u \in Placements(DefItems, max_items, Len(ps))
                     \X Placements(CallItems, max_items, Len(ps))
                     \X Placements(ImportNameLists, max_items, Len(ps))
                     \X Placements(ExportNameLists, max_items, Len(ps)) :
                 /\ \A k \in 1..Len(u[4]) : ~IsPython(ps[u[4][k].file])
                 /\ \A k \in 1..Len(u[2]) :
                       IsPython(ps[u[2][k].file]) /\ u[2][k].item.caller # NONE
                       => \E j \in 1..Len(u[1]) :
                             /\ u[1][j].file = u[2][k].file
                             /\ u[1][j].item.name = u[2][k].item.caller
                 /\ Len(u[1]) + Len(u[2]) + Len(u[3]) + Len(u[4]) <= max_items}}

RebuildRepositories ==
    UNION {RepositoriesOf(ps, MaxRebuildItems) : ps \in PathLists(MaxRebuildFiles)}

\* SemanticGraphOrchestrator.__init__ on one of these repositories
InitRebuild ==
    /\ repo \in RebuildRepositories
    /\ orchestrators = <<>>
    /\ pc = "idle"
    /\ tree = TreeOf(repo)
    /\ graph = None
    /\ analyzer = None
    /\ impact_analyzer = FALSE
    /\ risk_calculator = FALSE
    /\ stats = [files_discovered |-> 0, files_parsed |-> 0, functions_found |-> 0,
                edges_created |-> 0]
    /\ built = FALSE
    /\ history = <<>>
    /\ result = Returned("__init__", NONE, None)
    /\ score = RiskScore

\* the files under the repository path change; the orchestrator is not told
ChangeRepository ==
    /\ Len(Recorded(history, "edit")) <= MaxHistory
    /\ \E files \in RebuildRepositories : files # repo /\ repo' = files
    /\ tree' = TreeOf(repo')
    /\ UNCHANGED <<orchestrators, pc>>
    /\ history' = Recorded(history, "edit")
    /\ UNCHANGED <<graph, analyzer, impact_analyzer, risk_calculator, stats, built, result,
                   score>>

NextRebuild ==
    \/ BuildGraph
    \/ ChangeRepository
    \/ \E n \in QueryNames : FindUsages(n)
    \/ GetStatistics

SpecRebuild == InitRebuild /\ [][NextRebuild]_vars

\* the files have not changed since the last build that returned normally
BuildIsCurrent == built /\ Len(history) > 0 /\ history[Len(history)] = "build"

\* C17: after any sequence of builds that returned normally, graph, counters,
\* statistics and indexes are those of one build of the files of the most
\* recent build, nothing of an earlier build is left, and the queries
\* answer from them
HeldBuildIsLastBuild ==
    BuildIsCurrent =>
      LET g == builder_build_graph(repo)
          an == CodeAnalyzer(g)
      IN /\ graph = Some(g)
         /\ \A id \in DOMAIN Value(graph).nodes :
               \E f \in 1..Len(repo) : Value(graph).nodes[id].file_path = repo[f].file_path
         /\ Value(graph).total_files = Len(repo)
         /\ analyzer = Some(an)
         /\ impact_analyzer /\ risk_calculator
         /\ stats.files_discovered = Len(repo)
         /\ stats.files_parsed = Len(repo)
         /\ stats.functions_found = Len(AllDefinitions(repo))
         /\ stats.edges_created = Len(g.edges)
         /\ result.op = "find_usages"
            => result = Returned("find_usages", result.name, find_all_usages(an, result.name))
         /\ result.op = "get_statistics"
            => Value(result.value).graph_stats =
                  Some([total_functions |-> g.total_functions, total_files |-> g.total_files,
                        total_calls |-> g.total_calls, total_imports |-> g.total_imports])

\* a second build has returned after the files changed, and a query has
\* found the function the new files define
RebuiltAfterChange ==
    /\ history = <<"build", "edit", "build">>
    /\ result.op = "find_usages"
    /\ result.outcome = "returned"
    /\ ~IsNone(result.value)

(***************************************************************************)
(* Every read of the orchestrator and of its analyzer                      *)
(***************************************************************************)
NextQuery ==
    \/ BuildGraph
    \/ \E n \in QueryNames : FindUsages(n)
    \/ \E n \in QueryNames, d \in ChangeDescriptions : AssessChangeImpact(n, d)
    \/ \E n \in QueryNames, t \in ChangeTypes : CalculateRisk(n, t)
    \/ \E n \in QueryNames, d \in ChangeDescriptions : GetCompleteAnalysis(n, d)
    \/ \E n \in QueryNames : GetCallers(n)
    \/ \E n \in QueryNames : GetCalls(n)
    \/ GetStatistics

SpecQuery == InitRebuild /\ [][NextQuery]_vars

ReadOps == QueryOps \cup {"get_callers", "get_calls", "get_statistics"}

\* C18: find_usages, assess_change_impact, calculate_risk,
\* get_complete_analysis, get_callers, get_calls and get_statistics are pure
\* reads: the node map, the edge list, the counters, the statistics and
\* every index, the keys of the usage table included, are after the call
\* what they were before it
QueriesArePureReads ==
    [][result'.op \in ReadOps =>
          UNCHANGED <<graph, analyzer, impact_analyzer, risk_calculator, stats>>]_vars

\* a name that is no key of the usage table has been looked up on a built
\* orchestrator
UnknownNameLookedUp ==
    /\ ~IsNone(analyzer)
    /\ result.op \in {"find_usages", "get_callers", "get_calls"}
    /\ result.name \notin DOMAIN Value(analyzer).indexes.function_usages
    /\ DOMAIN Value(analyzer).indexes.function_usages # {}

\* C19: on a built orchestrator get_complete_analysis returns, for every
\* name, one structure that holds the usage report, the impact assessment
\* and the risk analysis, the risk analysis being the one of the name
CompleteAnalysisHoldsThreeReports ==
    built /\ result.op = "get_complete_analysis"
    => /\ result.outcome = "returned"
       /\ ~IsNone(result.value)
       /\ {"usage_report", "impact_assessment", "risk_analysis"}
             \subseteq DOMAIN Value(result.value)
       /\ ~IsNone(Value(result.value).risk_analysis)
       /\ Value(Value(result.value).risk_analysis).function_name = result.name

\* the repository is the one file calc.py, whose path matches no pattern of
\* a tier, that defines a and b and calls a once, inside b
SingleFileSelfCall ==
    /\ Len(repo) = 1
    /\ repo[1].file_path = "/r/a/calc.py"
    /\ \A i \in 1..Len(MODULE_PATTERNS) :
          ~Contains(MODULE_PATTERNS[i][1], Lower(repo[1].file_path))
    /\ Len(repo[1].functions) = 2
    /\ {repo[1].functions[k].name : k \in 1..2} = {"a", "b"}
    /\ Len(repo[1].calls) = 1
    /\ repo[1].calls[1].function_name = "a"
    /\ repo[1].calls[1].calling_function = "b"
    /\ Len(repo[1].imports) = 0 /\ Len(repo[1].exports) = 0

\* what the scenario gives for the graph and for find_usages("a")
SelfCallGraphAndUsages ==
    /\ FunctionNodes(Value(graph)) = {"calc:a", "calc:b"}
    /\ Cardinality(EdgesOfType(Value(graph), CALLS)) = 1
    /\ \A i \in EdgesOfType(Value(graph), CALLS) :
          /\ Value(graph).edges[i].source_id = "calc:b"
          /\ Value(graph).edges[i].target_id = "calc:a"
    /\ result.op = "find_usages" /\ result.name = "a"
       => /\ result.outcome = "returned"
          /\ Value(result.value).total_usages = 2

\* the risk score and level of assess_change_impact("a"), when it was the
\* last operation
SelfCallScoreIs(points) ==
    result.op = "assess_change_impact" /\ result.name = "a"
    => /\ result.outcome = "returned"
       /\ Value(result.value).risk_score.secondary_usages * 5 = points
       /\ Value(result.value).risk_score.total_score = points
       /\ Value(result.value).risk_score.risk_level = LOW

\* C20: for calc.py defining a and b, b calling a once, the graph has the
\* function nodes calc:a and calc:b and the one Calls edge calc:b -> calc:a,
\* find_usages("a") counts 2 usages, and assess_change_impact("a") gives
\* the risk score 10, the definition and the call each weighted 5 in the
\* default Secondary tier, and the level Low
SelfCallScenarioScoresTen ==
    built /\ SingleFileSelfCall => SelfCallGraphAndUsages /\ SelfCallScoreIs(10)

\* C20 as stated: the risk score is 5, the call alone weighted 5
SelfCallScenarioScoresFive ==
    built /\ SingleFileSelfCall => SelfCallGraphAndUsages /\ SelfCallScoreIs(5)

\* the impact of changing a has been assessed in the scenario
SelfCallScenarioAssessed ==
    /\ built /\ SingleFileSelfCall
    /\ result.op = "assess_change_impact" /\ result.name = "a"
    /\ result.outcome = "returned"
    /\ ~IsNone(result.value)

(***************************************************************************)
(* Discovery, parsing and build on trees with ignored directories, files   *)
(* of other kinds, files that do not decode and files whose parse raises   *)
(***************************************************************************)
MaxTreeFiles == 2   \* files below the root

\* directories below the root, as path segments after the root
TreeDirs ==
    {"", "/src", "/node_modules", "/.cache", "/src/node_modules", "/node_modules/src",
     "/Build"}
TreeNames == {"lib.js", "calc.py", "notes.txt"}
\* a file that parses, one that does not decode (reading it raises as
\* well), one that cannot be read when it is parsed, one whose extraction
\* raises after the functions were extracted
TreeKinds ==
    {[utf8 |-> TRUE, reads |-> TRUE, extraction_raises |-> FALSE],
     [utf8 |-> FALSE, reads |-> FALSE, extraction_raises |-> FALSE],
     [utf8 |-> TRUE, reads |-> FALSE, extraction_raises |-> FALSE],
     [utf8 |-> TRUE, reads |-> TRUE, extraction_raises |-> TRUE]}

\* what the extraction finds in a file of the tree: the definition of a
FoundIn(path) ==
    ParsedFile(path, <<[file |-> 1, item |-> [name |-> "a", is_exported |-> TRUE]]>>,
               <<>>, <<>>, <<>>)

TreeFiles ==
    {TreeFile(RootPath \o d \o "/" \o n, k.utf8, k.reads, k.extraction_raises,
              FoundIn(RootPath \o d \o "/" \o n)) :
        d \in TreeDirs, n \in TreeNames, k \in TreeKinds}

\* list a is a proper prefix of list b
IsProperPrefix(a, b) == Len(a) < Len(b) /\ SubSeq(b, 1, Len(a)) = a

\* the trees of at most MaxTreeFiles files with different paths, in an
\* order os.walk can meet them: the files of a directory before the files
\* below its subdirectories
Trees ==
    {t \in SeqsUpTo(TreeFiles, MaxTreeFiles) :
        \A i, j \in 1..Len(t) :
            i < j => /\ t[i].path # t[j].path
                     /\ ~IsProperPrefix(DirsBelowRoot(t[j].path), DirsBelowRoot(t[i].path))}

\* SemanticGraphOrchestrator.__init__ on the root of such a tree
InitDiscover ==
    /\ orchestrators = <<>>
    /\ pc = "idle"
    /\ tree \in Trees
    /\ repo = parse_files(discover_files(tree))
    /\ graph = None
    /\ analyzer = None
    /\ impact_analyzer = FALSE
    /\ risk_calculator = FALSE
    /\ stats = [files_discovered |-> 0, files_parsed |-> 0, functions_found |-> 0,
                edges_created |-> 0]
    /\ built = FALSE
    /\ history = <<>>
    /\ result = Returned("__init__", NONE, None)
    /\ score = RiskScore

\* FileDiscovery(root).discover_files(): the paths of the FileInfo list
DiscoverFiles ==
    /\ result' = Returned("discover_files", NONE,
                          Some(MapSeq(discover_files(tree), LAMBDA file : file.path)))
    /\ Frame

NextDiscover == BuildGraph \/ DiscoverFiles

SpecDiscover == InitDiscover /\ [][NextDiscover]_vars

\* the denylist of directory names
Denylist ==
    {"node_modules", ".git", ".github", "build", "dist", ".next", "venv", ".venv", "env",
     "__pycache__", ".pytest_cache", ".mypy_cache", "coverage", ".idea", ".vscode",
     "vendor", "target", "out"}

\* s ends with the suffix and is longer than it
EndsWith(s, suffix) ==
    Len(s) > Len(suffix) /\ SubSeq(s, Len(s) - Len(suffix) + 1, Len(s)) = suffix

\* no directory between the root and the file is denylisted or dot-named
BelowNoIgnoredDir(path) ==
    \A k \in 1..Len(DirsBelowRoot(path)) :
        LET dirname == DirsBelowRoot(path)[k]
        IN dirname \notin Denylist /\ SubSeq(dirname, 1, 1) # "."

\* C21: a file below the root is in the discovered list if and only if its
\* extension is .py, .js, .jsx, .ts or .tsx, it decodes as UTF-8, and no
\* directory between the root and it is in the denylist or begins with a
\* dot; and no node of a graph comes from a file below such a directory
DiscoveredIffCodeFileOutsideIgnoredDirs ==
    /\ result.op = "discover_files"
       => \A k \in 1..Len(tree) :
             InList(tree[k].path, Value(result.value))
             <=> /\ \E ext \in {".py", ".js", ".jsx", ".ts", ".tsx"} :
                       EndsWith(PathName(tree[k].path), ext)
                 /\ tree[k].utf8
                 /\ BelowNoIgnoredDir(tree[k].path)
    /\ ~IsNone(graph)
       => \A id \in DOMAIN Value(graph).nodes :
             BelowNoIgnoredDir(Value(graph).nodes[id].file_path)

\* discovery has listed a file and left out a code file below node_modules
\* or below a dot directory
IgnoredDirectorySkipped ==
    /\ result.op = "discover_files"
    /\ Len(Value(result.value)) > 0
    /\ \E k \in 1..Len(tree) :
          /\ PathName(tree[k].path) = "lib.js"
          /\ tree[k].utf8
          /\ ~BelowNoIgnoredDir(tree[k].path)

\* reading or parsing the discovered file raises inside parse_file
ParseRaises(file) == ~file.reads \/ ~file.utf8 \/ file.extraction_raises

\* the graph holds a File node that stands for the file of this path
HasFileNodeFor(g, path) ==
    \E id \in DOMAIN g.nodes : g.nodes[id].type = FILE /\ g.nodes[id].file_path = path

\* C22: a parser failure never aborts the build: for every discovered file
\* whose reading or parsing raises, parse_file returns a ParsedFile with the
\* error in parse_errors, build_graph raises for no other reason than the
\* root path or the storage path, and the graph built contains a File node
\* for that file
ParseFailureKeepsFileNode ==
    /\ \A k \in 1..Len(repo) :
          ParseRaises(discover_files(tree)[k])
          => /\ repo[k].file_path = discover_files(tree)[k].path
             /\ repo[k].parse_errors # <<>>
             /\ ~IsNone(graph) => HasFileNodeFor(Value(graph), repo[k].file_path)
    /\ result.op = "build_graph" /\ result.outcome = "raised"
       => result.error \in {"Path does not exist", "Path is not a directory",
                            "FileNotFoundError"}

(***************************************************************************)
(* api/graph.py: POST /graph/analyze and the cache of orchestrators        *)
(***************************************************************************)
\* the repo_path of a request: the directory of the repository, a file, a
\* path that does not exist, and remote addresses
ApiPaths ==
    {RootPath, "/readme.md", "/missing", "https://github.com/o/r", "http://h/r",
     "github.com/o/r", "git@github.com:o/r.git"}
ApiDirectories == {RootPath}
ApiFiles == {"/readme.md"}

\* os.path.exists
path_exists(path) == path \in ApiDirectories \cup ApiFiles

\* str.startswith
startswith(s, prefix) == Len(s) >= Len(prefix) /\ SubSeq(s, 1, Len(prefix)) = prefix

\* repo_path.startswith(("https://", "http://", "github.com", "git@"))
is_remote(repo_path) ==
    \E prefix \in {"https://", "http://", "github.com", "git@"} : startswith(repo_path, prefix)

HTTPException(status_code) == "HTTPException " \o status_code

\* the orchestrator SemanticGraphOrchestrator(repo_path) after build_graph()
\* has returned: the components of a first build of the parsed files
built_orchestrator(parsed_files) ==
    LET g == orchestrator_build_graph(None, parsed_files)
    IN [graph |-> Some(g), analyzer |-> Some(CodeAnalyzer(g)), impact_analyzer |-> TRUE,
        risk_calculator |-> TRUE,
        stats |-> [files_discovered |-> Len(parsed_files), files_parsed |-> Len(parsed_files),
                   functions_found |->
                       SumOver(parsed_files, LAMBDA pf : Len(pf.functions), 1),
                   edges_created |-> Len(g.edges)]]

AnalyzeResponse(status, statistics, graph_id) ==
    [status |-> status, statistics |-> statistics, graph_id |-> graph_id]

\* a faulty test of the cache: force_rebuild is not looked at
use_cached_ignoring_force(cache, repo_path, force_rebuild) == repo_path \in DOMAIN cache

\* "if repo_path in _orchestrators and not request.force_rebuild"
use_cached(cache, repo_path, force_rebuild) ==
    repo_path \in DOMAIN cache /\ ~force_rebuild

\* the cache with the orchestrator stored under the path
cache_put(cache, repo_path, o) == (repo_path :> o) @@ cache

\* the body of the try block of analyze_repository: what it raises or
\* returns, and the cache it leaves; o is the orchestrator that
\* SemanticGraphOrchestrator(repo_path) is once build_graph() has returned
analyze_try(cache, repo_path, force_rebuild, o) ==
    IF is_remote(repo_path)
    THEN [cache |-> cache, ran |-> FALSE,
          result |-> Raised("analyze_repository", repo_path, HTTPException("400"))]
    ELSE IF ~path_exists(repo_path)
    THEN [cache |-> cache, ran |-> FALSE,
          result |-> Raised("analyze_repository", repo_path, HTTPException("404"))]
    ELSE IF use_cached(cache, repo_path, force_rebuild)
    THEN [cache |-> cache, ran |-> FALSE,
          result |-> Returned("analyze_repository", repo_path,
                              Some(AnalyzeResponse("cached", statistics_of(cache[repo_path]),
                                                   repo_path)))]
    ELSE IF repo_path \notin ApiDirectories
    THEN [cache |-> cache, ran |-> FALSE,
          result |-> Raised("analyze_repository", repo_path, "Path is not a directory")]
    ELSE [cache |-> cache_put(cache, repo_path, o), ran |-> TRUE,
          result |-> Returned("analyze_repository", repo_path,
                              Some(AnalyzeResponse("success", statistics_of(o), repo_path)))]

\* "except Exception as e: raise HTTPException(status_code=500, ...)": the
\* handler of analyze_repository has no "except HTTPException: raise" before
\* it, and HTTPException is an Exception
analyze_except(outcome) ==
    IF outcome.result.outcome = "raised"
    THEN [outcome EXCEPT !.result = Raised("analyze_repository", outcome.result.name,
                                           HTTPException("500"))]
    ELSE outcome

analyze_repository(cache, repo_path, force_rebuild, o) ==
    analyze_except(analyze_try(cache, repo_path, force_rebuild, o))

MaxApiItems == 1   \* records in the one file of the repository behind the API

ApiRepositories == UNION {RepositoriesOf(ps, MaxApiItems) : ps \in PathLists(1)}

\* the server after start: the cache is empty; no orchestrator is held
\* outside the cache
InitApi ==
    /\ repo \in ApiRepositories
    /\ orchestrators = <<>>
    /\ pc = "idle"
    /\ tree = TreeOf(repo)
    /\ graph = None
    /\ analyzer = None
    /\ impact_analyzer = FALSE
    /\ risk_calculator = FALSE
    /\ stats = [files_discovered |-> 0, files_parsed |-> 0, functions_found |-> 0,
                edges_created |-> 0]
    /\ built = FALSE
    /\ history = <<>>
    /\ result = Returned("__init__", NONE, None)
    /\ score = RiskScore

\* POST /graph/analyze; the history records the runs of the pipeline
AnalyzeRepository(repo_path, force_rebuild) ==
    \E o \in {built_orchestrator(repo)} :
       \E outcome \in {analyze_repository(orchestrators, repo_path, force_rebuild, o)} :
          /\ outcome.ran => Len(Recorded(history, "build")) <= MaxHistory
          /\ orchestrators' = outcome.cache
          /\ result' = outcome.result
          /\ history' = IF outcome.ran THEN Recorded(history, "build") ELSE history
          /\ built' = (built \/ outcome.ran)
          /\ UNCHANGED <<pc, tree, repo, graph, analyzer, impact_analyzer, risk_calculator,
                         stats, score>>

\* the files under the repository path change; the server is not told
ChangeApiRepository ==
    /\ Len(Recorded(history, "edit")) <= MaxHistory
    /\ \E files \in ApiRepositories : files # repo /\ repo' = files
    /\ tree' = TreeOf(repo')
    /\ history' = Recorded(history, "edit")
    /\ UNCHANGED <<orchestrators, pc, graph, analyzer, impact_analyzer, risk_calculator,
                   stats, built, result, score>>

NextApi ==
    \/ \E repo_path \in ApiPaths, force_rebuild \in BOOLEAN :
          AnalyzeRepository(repo_path, force_rebuild)
    \/ ChangeApiRepository

SpecApi == InitApi /\ [][NextApi]_vars

RemoteAndMissingPathsRejected ==
    [][\A repo_path \in ApiPaths, force_rebuild \in BOOLEAN :
          AnalyzeRepository(repo_path, force_rebuild)
          => LET remote == \E prefix \in {"http://", "https://", "github.com", "git@"} :
                              startswith(repo_path, prefix)
                 missing == repo_path \notin ApiDirectories \cup ApiFiles
             IN /\ remote
                   => /\ result'.outcome = "raised"
                      /\ result'.error = HTTPException("400")
                      /\ orchestrators' = orchestrators
                      /\ history' = history
                /\ ~remote /\ missing
                   => /\ result'.outcome = "raised"
                      /\ result'.error = HTTPException("404")
                      /\ orchestrators' = orchestrators
                      /\ history' = history]_vars

(***************************************************************************)
(* parser.py: the extraction from the syntax tree.  A node of the tree is  *)
(* its type, the text of its field "name" and of its field "function"      *)
(* (NONE without the field), its own text where the extraction reads it,   *)
(* its line and its children in source order.                              *)
(***************************************************************************)
SyntaxNode(type, name, function, text, line, children) ==
    [type |-> type, name |-> name, function |-> function, text |-> text, line |-> line,
     children |-> children]

Token(type, line) == SyntaxNode(type, NONE, NONE, type, line, <<>>)
Identifier(text, line) == SyntaxNode("identifier", NONE, NONE, text, line, <<>>)
\* f(): call_expression in JavaScript, call in Python
CallNode(type, callee, line) ==
    SyntaxNode(type, NONE, callee, callee \o "()", line, <<Identifier(callee, line)>>)
ExpressionStatement(expression) ==
    SyntaxNode("expression_statement", NONE, NONE, "", expression.line, <<expression>>)
\* x = value
VariableDeclarator(x, value) ==
    SyntaxNode("variable_declarator", x, NONE, "", value.line,
               <<Identifier(x, value.line), value>>)
\* const x = value; / var x = value;
Declaration(type, x, value) ==
    SyntaxNode(type, NONE, NONE, "", value.line, <<VariableDeclarator(x, value)>>)
\* () => { body }
ArrowFunction(line, body) ==
    SyntaxNode("arrow_function", NONE, NONE, "", line,
               <<SyntaxNode("statement_block", NONE, NONE, "", line, body)>>)
\* function g() { body }
FunctionDeclaration(g, line, body) ==
    SyntaxNode("function_declaration", g, NONE, "", line,
               <<Identifier(g, line), SyntaxNode("statement_block", NONE, NONE, "", line, body)>>)
\* def g(): body
FunctionDefinitionNode(g, line, body) ==
    SyntaxNode("function_definition", g, NONE, "", line,
               <<Identifier(g, line), SyntaxNode("block", NONE, NONE, "", line, body)>>)
DottedName(text, line) ==
    SyntaxNode("dotted_name", NONE, NONE, text, line, <<Identifier(text, line)>>)
\* import M
ImportNode(module, line) ==
    SyntaxNode("import_statement", NONE, NONE, "", line,
               <<Token("import", line), DottedName(module, line)>>)
\* the children "X, Y" of an import list: each name is a dotted_name
RECURSIVE ImportList(_, _, _)
ImportList(names, k, line) ==
    IF k > Len(names) THEN <<>>
    ELSE (IF k > 1 THEN <<Token(",", line)>> ELSE <<>>)
         \o <<DottedName(names[k], line)>> \o ImportList(names, k + 1, line)
\* from M import X, Y: tree-sitter-python gives the module (field
\* module_name) and every imported name (field name) as dotted_name children
ImportFromNode(module, names, line) ==
    SyntaxNode("import_from_statement", NONE, NONE, "", line,
               <<Token("from", line), DottedName(module, line), Token("import", line)>>
               \o ImportList(names, 1, line))
\* the root: program in JavaScript, module in Python
RootNode(type, statements) == SyntaxNode(type, NONE, NONE, "", 1, statements)

\* CodeParser._find_containing_function on the ancestors of a node, the
\* parent first: the name of the first function_definition or
\* function_declaration, or of the first declarator of a lexical_declaration
RECURSIVE find_containing_function_from(_, _)
find_containing_function_from(ancestors, i) ==
    IF i > Len(ancestors) THEN NONE
    ELSE LET parent == ancestors[i]
             declarators ==
                 SelectSeq(parent.children,
                           LAMBDA child : child.type = "variable_declarator"
                                          /\ child.name # NONE)
         IN IF parent.type \in {"function_definition", "function_declaration"}
               /\ parent.name # NONE
            THEN parent.name
            ELSE IF parent.type = "lexical_declaration" /\ Len(declarators) > 0
            THEN declarators[1].name
            ELSE find_containing_function_from(ancestors, i + 1)

find_containing_function(ancestors) == find_containing_function_from(ancestors, 1)

\* CodeParser._extract_python_calls / _extract_js_calls: the node, then its
\* children in order
RECURSIVE extract_calls(_, _, _, _)
extract_calls(node, ancestors, call_type, path) ==
    (IF node.type = call_type /\ node.function # NONE
     THEN <<[function_name |-> node.function, file_path |-> path,
             line_number |-> node.line,
             calling_function |-> find_containing_function(ancestors)]>>
     ELSE <<>>)
    \o Flatten([k \in 1..Len(node.children) |->
                   extract_calls(node.children[k], <<node>> \o ancestors, call_type, path)])

\* CodeParser._extract_python_functions; _is_python_exported: the parent is
\* the module
RECURSIVE extract_python_functions(_, _, _)
extract_python_functions(node, ancestors, path) ==
    (IF node.type = "function_definition" /\ node.name # NONE
     THEN <<[name |-> node.name, file_path |-> path, line_number |-> node.line,
             is_exported |-> Len(ancestors) > 0 /\ ancestors[1].type = "module"]>>
     ELSE <<>>)
    \o Flatten([k \in 1..Len(node.children) |->
                   extract_python_functions(node.children[k], <<node>> \o ancestors, path)])

\* the functions of the declarators of a lexical_declaration or
\* variable_declaration whose value is a function
declared_functions(node, path) ==
    LET declarators ==
            SelectSeq(node.children,
                      LAMBDA child : /\ child.type = "variable_declarator"
                                     /\ child.name # NONE
                                     /\ Len(child.children) > 1
                                     /\ child.children[2].type \in {"arrow_function", "function"})
    IN [k \in 1..Len(declarators) |->
           [name |-> declarators[k].name, file_path |-> path,
            line_number |-> declarators[k].children[2].line, is_exported |-> FALSE]]

\* CodeParser._extract_js_functions; _is_js_exported: no export_statement
\* is among the ancestors of these trees
RECURSIVE extract_js_functions(_, _)
extract_js_functions(node, path) ==
    (IF node.type = "function_declaration"
     THEN IF node.name # NONE
          THEN <<[name |-> node.name, file_path |-> path, line_number |-> node.line,
                  is_exported |-> FALSE]>>
          ELSE <<>>
     ELSE IF node.type \in {"lexical_declaration", "variable_declaration"}
     THEN declared_functions(node, path)
     ELSE <<>>)
    \o Flatten([k \in 1..Len(node.children) |-> extract_js_functions(node.children[k], path)])

\* the texts of the children of the node that have one of the types
texts_of_children(node, types) ==
    MapSeq(SelectSeq(node.children, LAMBDA child : child.type \in types),
           LAMBDA child : child.text)

\* the loop of the import_from_statement branch: every dotted_name child is
\* assigned to source_module; the elif, reached by the children that are no
\* dotted_name, appends the identifier children to imported_names
import_from_names(node) ==
    LET dotted == texts_of_children(node, {"dotted_name"})
    IN [source_module |-> IF Len(dotted) > 0 THEN dotted[Len(dotted)] ELSE "",
        imported_names |-> texts_of_children(node, {"identifier"})]

\* CodeParser._extract_python_imports
RECURSIVE extract_python_imports(_, _)
extract_python_imports(node, path) ==
    (IF node.type = "import_statement"
     THEN LET imported_names == texts_of_children(node, {"dotted_name"})
          IN IF Len(imported_names) > 0
             THEN <<[imported_names |-> imported_names, source_module |-> imported_names[1],
                     file_path |-> path, line_number |-> node.line]>>
             ELSE <<>>
     ELSE IF node.type = "import_from_statement"
     THEN LET found == import_from_names(node)
          IN IF Len(found.imported_names) > 0
             THEN <<[imported_names |-> found.imported_names,
                     source_module |-> found.source_module,
                     file_path |-> path, line_number |-> node.line]>>
             ELSE <<>>
     ELSE <<>>)
    \o Flatten([k \in 1..Len(node.children) |->
                   extract_python_imports(node.children[k], path)])

\* CodeParser._parse_python / _parse_javascript on the root of the tree of
\* a file without import or export statements of JavaScript
parse_source(path, root_node) ==
    IF IsPython(path)
    THEN [file_path |-> path,
          functions |-> extract_python_functions(root_node, <<>>, path),
          calls |-> extract_calls(root_node, <<>>, "call", path),
          imports |-> extract_python_imports(root_node, path),
          exports |-> <<>>, parse_errors |-> <<>>]
    ELSE [file_path |-> path,
          functions |-> extract_js_functions(root_node, path),
          calls |-> extract_calls(root_node, <<>>, "call_expression", path),
          imports |-> <<>>, exports |-> <<>>, parse_errors |-> <<>>]

\* a file of the tree with its syntax tree
SourceFile(path, root_node) ==
    [path |-> path, utf8 |-> TRUE, reads |-> TRUE, extraction_raises |-> FALSE,
     found |-> parse_source(path, root_node), root_node |-> root_node]

MaxStatements == 2   \* statements at the top of a source file

Callees == {"a", "g"}

\* statements of JavaScript at line l: a(); const x = a(); var x = a();
\* function g() { a(); }  function g() { const x = a(); }
\* const h = () => { a(); };  function g() { const h = () => { a(); }; }
JsStatements(l) ==
    UNION {{ExpressionStatement(CallNode("call_expression", f, l)),
            Declaration("lexical_declaration", "x", CallNode("call_expression", f, l)),
            Declaration("variable_declaration", "x", CallNode("call_expression", f, l)),
            FunctionDeclaration("g", l,
                <<ExpressionStatement(CallNode("call_expression", f, l + 1))>>),
            FunctionDeclaration("g", l,
                <<Declaration("lexical_declaration", "x",
                              CallNode("call_expression", f, l + 1))>>),
            Declaration("lexical_declaration", "h",
                ArrowFunction(l, <<ExpressionStatement(CallNode("call_expression", f, l + 1))>>)),
            FunctionDeclaration("g", l,
                <<Declaration("lexical_declaration", "h",
                    ArrowFunction(l + 1,
                        <<ExpressionStatement(CallNode("call_expression", f, l + 2))>>))>>)} :
           f \in Callees}

\* statements of Python at line l: a()   def g(): a()   def g(): def h(): a()
\* import m   from m import a   from m import a, g   from m import g, a
PyStatements(l) ==
    UNION {{ExpressionStatement(CallNode("call", f, l)),
            FunctionDefinitionNode("g", l, <<ExpressionStatement(CallNode("call", f, l + 1))>>),
            FunctionDefinitionNode("g", l,
                <<FunctionDefinitionNode("h", l + 1,
                      <<ExpressionStatement(CallNode("call", f, l + 2))>>)>>)} :
           f \in Callees}
    \cup {ImportNode("m", l), ImportFromNode("m", <<"a">>, l),
          ImportFromNode("m", <<"a", "g">>, l), ImportFromNode("m", <<"g", "a">>, l)}

\* the source files: one to MaxStatements statements, ten lines apart
Statements(path, l) == IF IsPython(path) THEN PyStatements(l) ELSE JsStatements(l)
\* the lists of n statements of the language of the path, statement k at
\* line 10 * k
StatementLists(path, n) ==
    {stmts \in [1..n -> UNION {Statements(path, 10 * k) : k \in 1..n}] :
        \A k \in 1..n : stmts[k] \in Statements(path, 10 * k)}
SourceFiles ==
    {SourceFile(pl[1], RootNode(IF IsPython(pl[1]) THEN "module" ELSE "program", pl[2])) :
        pl \in UNION {{path} \X StatementLists(path, n) :
                         path \in {"/r/lib.js", "/r/calc.py"}, n \in 1..MaxStatements}}

\* SemanticGraphOrchestrator.__init__ on a repository of one source file
InitParse ==
    /\ tree \in {<<file>> : file \in SourceFiles}
    /\ repo = parse_files(discover_files(tree))
    /\ orchestrators = <<>>
    /\ pc = "idle"
    /\ graph = None
    /\ analyzer = None
    /\ impact_analyzer = FALSE
    /\ risk_calculator = FALSE
    /\ stats = [files_discovered |-> 0, files_parsed |-> 0, functions_found |-> 0,
                edges_created |-> 0]
    /\ built = FALSE
    /\ history = <<>>
    /\ result = Returned("__init__", NONE, None)
    /\ score = RiskScore

\* CodeParser().parse_file(file_info) on the file of the tree
ParseFile ==
    /\ result' = Returned("parse_file", tree[1].path, Some(parse_file(tree[1])))
    /\ Frame

NextParse == ParseFile \/ BuildGraph

SpecParse == InitParse /\ [][NextParse]_vars

\* the name of the nearest function definition among the ancestors of a
\* node, the parent first: a def, a function declaration, or a function
\* value that is the initializer of a declarator; NONE without one
RECURSIVE NearestFunctionDefinition(_, _)
NearestFunctionDefinition(ancestors, i) ==
    IF i > Len(ancestors) THEN NONE
    ELSE IF ancestors[i].type \in {"function_definition", "function_declaration"}
    THEN ancestors[i].name
    ELSE IF /\ ancestors[i].type \in {"arrow_function", "function"}
            /\ i < Len(ancestors)
            /\ ancestors[i + 1].type = "variable_declarator"
    THEN ancestors[i + 1].name
    ELSE NearestFunctionDefinition(ancestors, i + 1)

\* the call sites below a node in source order, each with its line and the
\* name of its nearest enclosing function definition
RECURSIVE CallSites(_, _)
CallSites(node, ancestors) ==
    (IF node.type \in {"call", "call_expression"}
     THEN <<[line |-> node.line, enclosing |-> NearestFunctionDefinition(ancestors, 1)]>>
     ELSE <<>>)
    \o Flatten([k \in 1..Len(node.children) |->
                   CallSites(node.children[k], <<node>> \o ancestors)])

\* C24: the enclosing function recorded for a call site is the name of its
\* nearest ancestor function definition and is null when it has none, as
\* for the initializer of a module-level const x = f(); the Calls edge of a
\* call without enclosing function has the file node as its source
EnclosingIsNearestFunctionDefinition ==
    LET sites == CallSites(tree[1].root_node, <<>>)
    IN /\ result.op = "parse_file"
          => LET calls == Value(result.value).calls
             IN /\ Len(calls) = Len(sites)
                /\ \A k \in 1..Len(calls) :
                      /\ calls[k].line_number = sites[k].line
                      /\ calls[k].calling_function = sites[k].enclosing
       /\ ~IsNone(graph)
          => \A i \in EdgesOfType(Value(graph), CALLS) :
                \A k \in 1..Len(sites) :
                   /\ sites[k].line = Value(graph).edges[i].line_number
                   /\ sites[k].enclosing = NONE
                   => Value(graph).edges[i].source_id = make_file_id(tree[1].path)

\* the statements "from M import X, Y" at the top of a tree, each with its
\* line, its module M (the dotted name after "from") and its names X, Y (the
\* dotted names after "import") in order
ImportFromStatements(root_node) ==
    MapSeq(SelectSeq(root_node.children,
                     LAMBDA statement : statement.type = "import_from_statement"),
           LAMBDA statement :
               LET dotted == SelectSeq(statement.children,
                                       LAMBDA child : child.type = "dotted_name")
               IN [line |-> statement.line, module |-> dotted[1].text,
                   names |-> MapSeq(Tail(dotted), LAMBDA child : child.text)])

\* C25: for a Python statement from M import X, Y the parser emits one
\* import statement with source module M and the imported names X, Y in
\* order, and the graph built holds an Imports edge at its line whenever
\* one of the names is a function of the repository
FromImportKeepsModuleAndNames ==
    LET statements == ImportFromStatements(tree[1].root_node)
    IN /\ result.op = "parse_file"
          => \A k \in 1..Len(statements) :
                LET emitted == SelectSeq(Value(result.value).imports,
                                         LAMBDA imp : imp.line_number = statements[k].line)
                IN /\ Len(emitted) = 1
                   /\ emitted[1].source_module = statements[k].module
                   /\ emitted[1].imported_names = statements[k].names
       /\ ~IsNone(graph)
          => \A k \in 1..Len(statements) :
                (\E n \in 1..Len(statements[k].names), d \in 1..Len(repo[1].functions) :
                    repo[1].functions[d].name = statements[k].names[n])
                => \E i \in EdgesOfType(Value(graph), IMPORTS) :
                      Value(graph).edges[i].line_number = statements[k].line

\* C27: the usage report that find_usages returns for the display name of a
\* function carries the ID of an existing function node of that name, and
\* the usages listed are those of that node, whether the function is
\* exported or not and when several files define the name
UsageReportNamesItsNode ==
    /\ result.op = "find_usages"
    /\ result.outcome = "returned"
    /\ ~IsNone(result.value)
    /\ \E id \in DOMAIN Value(graph).nodes :
          /\ Value(graph).nodes[id].type = FUNCTION
          /\ Value(graph).nodes[id].name = result.name
    => LET report == Value(result.value)
           g == Value(graph)
       IN /\ report.node_id \in DOMAIN g.nodes
          /\ g.nodes[report.node_id].type = FUNCTION
          /\ g.nodes[report.node_id].name = result.name
          /\ Value(analyzer).indexes.function_usages[report.node_id]
                = Value(analyzer).indexes.function_usages[result.name]

\* the IDs of the nodes of a type in the node map
NodesOfType(g, type) == {id \in DOMAIN g.nodes : g.nodes[id].type = type}

\* C28: after build_graph the counters agree with the contents of the
\* graph: total_functions is the number of Function nodes in the node map,
\* total_files the number of File nodes, total_calls the number of Calls
\* edges and total_imports the number of Imports edges, ID collisions
\* included
CountersAgreeWithGraph ==
    ~IsNone(graph)
    => LET g == Value(graph)
       IN /\ g.total_functions = Cardinality(NodesOfType(g, FUNCTION))
          /\ g.total_files = Cardinality(NodesOfType(g, FILE))
          /\ g.total_calls = Cardinality(EdgesOfType(g, CALLS))
          /\ g.total_imports = Cardinality(EdgesOfType(g, IMPORTS))

(***************************************************************************)
(* ImpactAnalyzer on modules with many usages: the risk score and the      *)
(* business impact of a list of modules as _categorize_by_module gives it  *)
(***************************************************************************)
\* the numbers of usages a module of the list has (0: no such module)
ImpactUsageCounts == {0, 1, 5, 11, 21}

\* one file per criticality, by MODULE_PATTERNS
ImpactPaths ==
    <<"/r/checkout/cart.js", "/r/invoice/pdf.js", "/r/util/str.js", "/r/test/cart.test.js">>

\* the module of a file in which the function is called n times
module_with_calls(file_path, n) ==
    create_module_usage(file_path, [k \in 1..n |-> UsageLocation(CALL, file_path, k, NONE)])

\* the modules of the files that have usages, sorted by criticality
ImpactModules(counts) ==
    sort_by_criticality(
        MapSeq(SelectSeq(<<1, 2, 3, 4>>, LAMBDA i : counts[i] > 0),
               LAMBDA i : module_with_calls(ImpactPaths[i], counts[i])))

\* assess_change_impact has categorized the usages by module
InitImpact ==
    /\ result \in {Returned("categorize_by_module", NONE, Some(ImpactModules(counts))) :
                      counts \in [1..4 -> ImpactUsageCounts]}
    /\ score = RiskScore
    /\ repo = <<>>
    /\ orchestrators = <<>>
    /\ pc = "idle"
    /\ tree = TreeOf(repo)
    /\ graph = None
    /\ analyzer = None
    /\ impact_analyzer = FALSE
    /\ risk_calculator = FALSE
    /\ stats = [files_discovered |-> 0, files_parsed |-> 0, functions_found |-> 0,
                edges_created |-> 0]
    /\ built = FALSE
    /\ history = <<>>

\* the steps of assess_change_impact after the categorisation:
\* _calculate_risk_score, then _assess_business_impact
AssessBusinessImpact ==
    /\ result.op = "categorize_by_module"
    /\ LET modules == Value(result.value)
       IN /\ score' = calculate_risk_score(modules)
          /\ result' = Returned("assess_business_impact", NONE,
                                Some([modules |-> modules,
                                      risk_score |-> score',
                                      business_impact |->
                                          assess_business_impact(modules, score')]))
    /\ UNCHANGED <<orchestrators, pc, tree, repo, graph, analyzer, impact_analyzer,
                   risk_calculator, stats, built, history>>

NextImpact == AssessBusinessImpact

SpecImpact == InitImpact /\ [][NextImpact]_vars

\* the rank of a business impact by its upper revenue figure per hour
ImpactSeverity(business_impact) ==
    IF business_impact.revenue_impact_high = "$500K/hour" THEN 4
    ELSE IF business_impact.revenue_impact_high = "$100K/hour" THEN 3
    ELSE IF business_impact.revenue_impact_high = "$20K/hour" THEN 2
    ELSE 1

\* C29: without a CriticalPath module the business impact is monotone in
\* the risk level: a report of level Critical gets a revenue range, affected
\* users and a recovery time at least as severe as those of level High,
\* never the values of the low impact
CriticalLevelAtLeastHighImpact ==
    /\ result.op = "assess_business_impact"
    /\ \A k \in 1..Len(Value(result.value).modules) :
          Value(result.value).modules[k].criticality # CRITICAL_PATH
    /\ Value(result.value).risk_score.risk_level = CRITICAL
    => /\ ImpactSeverity(Value(result.value).business_impact) >= 3
       /\ Value(result.value).business_impact.affected_users
             # "Few users or developers only"
       /\ Value(result.value).business_impact.recovery_time # "0.5-1 hour"

(***************************************************************************)
(* build_graph step by step, with queries of other threads in between.     *)
(* The orchestrator holds no lock; a thread inside build_graph is at       *)
(* position pc, and the files do not change while it is there.             *)
(***************************************************************************)
\* CodeAnalyzer(graph) before create_indexes(): the indexes are empty
new_analyzer ==
    [indexes |-> [function_usages |-> <<>>, function_calls |-> <<>>,
                  function_called_by |-> <<>>, exported_functions |-> <<>>]]

\* steps 1 and 2 of build_graph: discovery and parsing, with their statistics
BuildParse ==
    /\ pc = "idle"
    /\ pc' = "parsed"
    /\ stats' = [stats EXCEPT !.files_discovered = Len(repo), !.files_parsed = Len(repo),
                              !.functions_found =
                                  SumOver(repo, LAMBDA pf : Len(pf.functions), 1)]
    /\ UNCHANGED <<orchestrators, tree, repo, graph, analyzer, impact_analyzer,
                   risk_calculator, built, history, result, score>>

\* step 3: self.graph = self._build_graph(parsed_files)
BuildStoreGraph ==
    /\ pc = "parsed"
    /\ pc' = "graph"
    /\ graph' = Some(orchestrator_build_graph(graph, repo))
    /\ stats' = [stats EXCEPT !.edges_created = Len(Value(graph').edges)]
    /\ UNCHANGED <<orchestrators, tree, repo, analyzer, impact_analyzer, risk_calculator,
                   built, history, result, score>>

\* step 4, _create_indexes: self.analyzer = CodeAnalyzer(self.graph)
BuildStoreAnalyzer ==
    /\ pc = "graph"
    /\ pc' = "analyzer"
    /\ analyzer' = Some(new_analyzer)
    /\ UNCHANGED <<orchestrators, tree, repo, graph, impact_analyzer, risk_calculator,
                   stats, built, history, result, score>>

\* self.analyzer.create_indexes()
BuildCreateIndexes ==
    /\ pc = "analyzer"
    /\ pc' = "indexed"
    /\ analyzer' = Some(CodeAnalyzer(Value(graph)))
    /\ UNCHANGED <<orchestrators, tree, repo, graph, impact_analyzer, risk_calculator,
                   stats, built, history, result, score>>

\* the impact analyzer and the risk calculator are assigned, and
\* build_graph() returns (no storage path)
BuildReturn ==
    /\ pc = "indexed"
    /\ pc' = "idle"
    /\ impact_analyzer' = TRUE
    /\ risk_calculator' = TRUE
    /\ built' = TRUE
    /\ history' = Recorded(history, "build")
    /\ result' = Returned("build_graph", NONE, None)
    /\ UNCHANGED <<orchestrators, tree, repo, graph, analyzer, stats, score>>

\* the files change while no thread is inside build_graph
ChangeFilesBetweenBuilds == pc = "idle" /\ ChangeApiRepository

NextConcurrent ==
    \/ BuildParse
    \/ BuildStoreGraph
    \/ BuildStoreAnalyzer
    \/ BuildCreateIndexes
    \/ BuildReturn
    \/ ChangeFilesBetweenBuilds
    \/ \E n \in QueryNames : FindUsages(n)

SpecConcurrent == InitApi /\ [][NextConcurrent]_vars

\* C30: when queries of other threads interleave with a second build_graph
\* on the same orchestrator, no query observes a mixed state: at every step
\* at which a query is accepted, the analyzer's indexes are those of the
\* graph the orchestrator holds, all of the old build or all of the new one
QueriesSeeOneBuild ==
    [][\A n \in QueryNames :
          built /\ FindUsages(n) /\ result'.outcome = "returned"
          => /\ ~IsNone(graph)
             /\ analyzer = Some(CodeAnalyzer(Value(graph)))]_vars

====
